---------------------------- MODULE Spec2Model ----------------------------
(***************************************************************************)
(* Training / evaluation orchestration and the attention convolution      *)
(* layer of the full-graph / mini-batch convergence experiments.           *)
(*                                                                         *)
(* Several state machines share this module, each with its own             *)
(* specification:                                                          *)
(*   Spec        the experiment drivers' run(): epoch loop, checkpoint,    *)
(*               early stop / timeout, post-loop test evaluation           *)
(*               (experiments/gat/full_graph.py, experiments/gat/          *)
(*               mini_batch.py, experiments/graphsage/mini_batch.py)       *)
(*   SpecTrain   one training pass, batch by batch                         *)
(*   SpecSigOpt  do_sigopt_run() of the SigOpt full-batch GAT script       *)
(*   SpecConv    GATConv.forward, entry check                              *)
(*   SpecLayer*  GATConv.__init__ and GATConv.forward, statement by        *)
(*               statement, over passes in training and evaluation mode    *)
(*   SpecGAT     GAT.forward over a list of blocks, tensors as shapes      *)
(*   SpecEquiv   GAT.forward with one layer on a graph and on a block      *)
(*               sampled from it                                           *)
(*   SpecNet     GAT.__init__ and the feature widths and edge inputs of    *)
(*               GAT.forward                                               *)
(*   SpecSageMain, SpecGatFullMain, SpecGatMiniMain, SpecLauncher          *)
(*               the entry points of the driver scripts and of             *)
(*               run_experiment.py                                         *)
(*   SpecSigLists  do_sigopt_run() with its per-epoch lists and the        *)
(*               metrics it logs                                           *)
(* A specification leaves the variables of the other machines untouched.   *)
(***************************************************************************)
EXTENDS Integers, Sequences, FiniteSets, TLC

VARIABLES
    \* ---- experiment driver: run() / log_run() ----
    driver,                   \* which driver script is running
    num_epochs,               \* args.num_epochs
    early_stopping_patience,  \* args.early_stopping_patience
    early_stopping_monitor,   \* args.early_stopping_monitor
    test_validation,          \* args.test_validation
    pc,                       \* position of the control thread in run()
    epoch,                    \* loop variable of `for epoch in range(num_epochs)`
    params,                   \* model parameters, as a version number
    training,                 \* nn.Module.training of the model
    checkpoint,               \* the utils.Callback object
    train_time,               \* value returned by the last train()
    valid_time,               \* value returned by the last validate()
    valid_loss,
    valid_score,
    stop_reason,              \* why the epoch loop ended
    test_params,              \* parameters the test evaluation ran with
    \* observation of the run (never read by the actions' guards)
    train_passes,             \* training passes executed so far
    valid_passes,             \* validation passes (validation split) so far
    creates,                  \* checkpoint.create calls so far
    test_evals,               \* evaluations of the test split so far
    valid_losses,             \* validation loss of every executed epoch
    \* ---- one training pass: train() / train_mini_batch() / train_full_graph() ----
    tr_fn,                    \* which training function is running
    tr_num_batches,           \* number of batches the dataloader yields
    tr_pc,                    \* position inside the function
    tr_step,                  \* `step` of enumerate(dataloader)
    tr_training,              \* nn.Module.training of the model
    tr_params,                \* model parameters, as a version number
    tr_grad,                  \* backward passes accumulated in .grad since the last clear
    tr_loss,                  \* loss of the current batch
    tr_total_loss,            \* total_loss accumulator
    \* observation of the pass
    tr_zero_grads,            \* optimizer.zero_grad() calls so far
    tr_forwards,              \* forward passes so far
    tr_losses,                \* loss computations so far
    tr_backwards,             \* loss.backward() calls so far
    tr_opt_steps,             \* optimizer.step() calls so far
    \* ---- SigOpt full-batch script: do_sigopt_run() ----
    number_of_epochs,         \* args.number_of_epochs
    sig_pc,                   \* position inside do_sigopt_run()
    sig_epoch,                \* loop variable of `for epoch in range(1, 1 + number_of_epochs)`
    test_accuracy,            \* test accuracy of the current epoch
    best_accuracy,            \* {'value', 'epoch'} or None
    early_stopping_counter,
    early_stop_prints,        \* times "EARLY STOP" was printed
    \* ---- GATConv.forward ----
    g,                        \* the graph or block handed to forward
    allow_zero_in_degree,     \* self._allow_zero_in_degree
    conv_pc,                  \* position inside forward
    conv_error,               \* exception raised by forward, if any
    conv_out_rows,            \* number of rows of the returned tensor
    \* ---- GATConv.__init__ and GATConv.forward in detail ----
    conv_args,                \* the arguments of GATConv(...)
    gatconv,                  \* the constructed module, or NoModule
    lyr_pc,                   \* position inside __init__ / forward
    lyr_error,                \* exception raised, if any
    graph,                    \* the graph or block handed to forward
    frames,                   \* g.srcdata, g.dstdata and g.edata
    node_inputs,              \* forward's node_inputs, one value per source node
    module_training,          \* self.training
    node_inputs_dst,          \* locals of forward
    feat_fc_src,
    feat_fc_dst,
    edge_e,                   \* `e`, the per-edge attention logits
    eids,                     \* edges kept by edge dropout
    out_x,                    \* `x`
    returned,                 \* value returned by the last forward, with its shape
    pass_kind,                \* "train", "valid" or "test"
    passes_left,              \* passes still to run
    pass_log,                 \* observation: one record per finished forward
    \* ---- GAT.forward over a list of blocks ----
    gat_num_layers,           \* self._num_layers
    gat_blocks,               \* the list `g`, one block per layer
    gat_pc,
    gat_i,                    \* loop variable of `for i in range(self._num_layers)`
    gat_x,                    \* `x`: its number of rows and what produced it
    gat_log,                  \* observation: one record per applied layer
    \* ---- one-layer GAT.forward on a graph and on a block of it ----
    eq_graph,                 \* the full graph
    eq_block,                 \* a block sampled from it
    eq_feat,                  \* g.srcdata['feat'] of the full graph
    eq_norm,                  \* norm of the layer
    eq_activation,            \* activation of the model
    eq_pc,
    eq_logits_full,           \* model(g)
    eq_logits_block,          \* model([block])
    \* ---- GAT.__init__ and the tensor widths of GAT.forward ----
    net_args,                 \* the arguments of GAT(...)
    net_model,                \* the constructed module
    net_input,                \* the graph or list of blocks: edge features or not
    net_pc,
    net_i,                    \* loop variable of `for i in range(self._num_layers)`
    net_x,                    \* width (dim 1) of `x`
    net_error,                \* exception raised, if any
    net_log,                  \* observation: one record per applied layer
    \* ---- the scripts' entry points (`if __name__ == '__main__'`) ----
    main_script,              \* which script is running
    main_args,                \* the parsed command line (`args`)
    main_env,                 \* os.environ: whether SIGOPT_API_TOKEN is set
    main_pc,                  \* position of the control thread
    main_error,               \* exception that ended the process, if any
    main_bound,               \* names bound so far (experiment, suggestion, ...)
    main_finished,            \* what experiment.is_finished() answers
    main_run,                 \* the open SigOpt run context
    main_runs,                \* the closed run contexts, oldest first
    main_events,              \* observation: what the process did, in order
    \* ---- do_sigopt_run(): the per-epoch lists and the logged metrics ----
    sl_number_of_epochs,      \* args.number_of_epochs
    sl_pc,
    sl_epoch,                 \* loop variable
    sl_now,                   \* train/test accuracy and loss of the current epoch
    sl_best_accuracy,         \* best_accuracy: {'value', 'epoch'} or None
    epoch_train_accuracies,
    epoch_test_accuracies,
    epoch_train_losses,
    epoch_test_losses,
    sl_metrics                \* the metrics last given to sigopt.log_metric

drvVars == <<driver, num_epochs, early_stopping_patience, early_stopping_monitor,
             test_validation, pc, epoch, params, training, checkpoint,
             train_time, valid_time, valid_loss, valid_score, stop_reason,
             test_params, train_passes, valid_passes, creates, test_evals,
             valid_losses>>

trVars == <<tr_fn, tr_num_batches, tr_pc, tr_step, tr_training, tr_params,
            tr_grad, tr_loss, tr_total_loss, tr_zero_grads, tr_forwards,
            tr_losses, tr_backwards, tr_opt_steps>>

sigVars == <<number_of_epochs, sig_pc, sig_epoch, test_accuracy, best_accuracy,
             early_stopping_counter, early_stop_prints>>

convVars == <<g, allow_zero_in_degree, conv_pc, conv_error, conv_out_rows>>

lyrVars == <<conv_args, gatconv, lyr_pc, lyr_error, graph, frames, node_inputs,
             module_training, node_inputs_dst, feat_fc_src, feat_fc_dst, edge_e,
             eids, out_x, returned, pass_kind, passes_left, pass_log>>

gatVars == <<gat_num_layers, gat_blocks, gat_pc, gat_i, gat_x, gat_log>>

eqVars == <<eq_graph, eq_block, eq_feat, eq_norm, eq_activation, eq_pc,
            eq_logits_full, eq_logits_block>>

netVars == <<net_args, net_model, net_input, net_pc, net_i, net_x, net_error,
             net_log>>

mainVars == <<main_script, main_args, main_env, main_pc, main_error, main_bound,
              main_finished, main_run, main_runs, main_events>>

slVars == <<sl_number_of_epochs, sl_pc, sl_epoch, sl_now, sl_best_accuracy,
            epoch_train_accuracies, epoch_test_accuracies, epoch_train_losses,
            epoch_test_losses, sl_metrics>>

extVars == <<netVars, mainVars, slVars>>

vars == <<drvVars, trVars, sigVars, convVars, lyrVars, gatVars, eqVars, extVars>>

\* Python's None for integer-valued fields.
None == 0 - 1

(***************************************************************************)
(* The resting state of each machine, held while another one runs.         *)
(***************************************************************************)
DrvIdle ==
    /\ driver = "none" /\ num_epochs = 0 /\ early_stopping_patience = 0
    /\ early_stopping_monitor = "none" /\ test_validation = FALSE
    /\ pc = "idle" /\ epoch = 0 /\ params = 0 /\ training = FALSE
    /\ checkpoint = None /\ train_time = 0 /\ valid_time = 0
    /\ valid_loss = None /\ valid_score = None /\ stop_reason = "idle"
    /\ test_params = None /\ train_passes = 0 /\ valid_passes = 0
    /\ creates = 0 /\ test_evals = 0 /\ valid_losses = <<>>

TrIdle ==
    /\ tr_fn = "none" /\ tr_num_batches = 0 /\ tr_pc = "idle" /\ tr_step = None
    /\ tr_training = FALSE /\ tr_params = 0 /\ tr_grad = 0 /\ tr_loss = None
    /\ tr_total_loss = 0 /\ tr_zero_grads = 0 /\ tr_forwards = 0
    /\ tr_losses = 0 /\ tr_backwards = 0 /\ tr_opt_steps = 0

SigIdle ==
    /\ number_of_epochs = 0 /\ sig_pc = "idle" /\ sig_epoch = 0
    /\ test_accuracy = None /\ best_accuracy = [value |-> None, epoch |-> None]
    /\ early_stopping_counter = 0 /\ early_stop_prints = 0

ConvIdle ==
    /\ g = [is_block |-> FALSE, num_src_nodes |-> 0, num_dst_nodes |-> 0,
            edges |-> <<>>]
    /\ allow_zero_in_degree = TRUE /\ conv_pc = "idle"
    /\ conv_error = "none" /\ conv_out_rows = None

LyrIdle ==
    /\ conv_args = <<>> /\ gatconv = <<>> /\ lyr_pc = "idle" /\ lyr_error = "none"
    /\ graph = <<>> /\ frames = <<>> /\ node_inputs = <<>>
    /\ module_training = FALSE /\ node_inputs_dst = <<>> /\ feat_fc_src = <<>>
    /\ feat_fc_dst = <<>> /\ edge_e = <<>> /\ eids = {} /\ out_x = <<>>
    /\ returned = <<>> /\ pass_kind = "none" /\ passes_left = 0
    /\ pass_log = <<>>

GatIdle ==
    /\ gat_num_layers = 0 /\ gat_blocks = <<>> /\ gat_pc = "idle" /\ gat_i = 0
    /\ gat_x = <<>> /\ gat_log = <<>>

EqIdle ==
    /\ eq_graph = <<>> /\ eq_block = <<>> /\ eq_feat = <<>> /\ eq_norm = "none"
    /\ eq_activation = "none" /\ eq_pc = "idle" /\ eq_logits_full = <<>>
    /\ eq_logits_block = <<>>

NetIdle ==
    /\ net_args = <<>> /\ net_model = <<>> /\ net_input = <<>>
    /\ net_pc = "idle" /\ net_i = 0 /\ net_x = 0
    /\ net_error = [type |-> "none", at |-> "none"]
    /\ net_log = <<>>

MainIdle ==
    /\ main_script = "none" /\ main_args = <<>> /\ main_env = FALSE
    /\ main_pc = "idle" /\ main_error = "none" /\ main_bound = {}
    /\ main_finished = TRUE /\ main_run = <<>> /\ main_runs = <<>>
    /\ main_events = <<>>

SlIdle ==
    /\ sl_number_of_epochs = 0 /\ sl_pc = "idle" /\ sl_epoch = 0
    /\ sl_now = <<>> /\ sl_best_accuracy = <<>>
    /\ epoch_train_accuracies = <<>> /\ epoch_test_accuracies = <<>>
    /\ epoch_train_losses = <<>> /\ epoch_test_losses = <<>>
    /\ sl_metrics = <<>>

ExtIdle == NetIdle /\ MainIdle /\ SlIdle

(***************************************************************************)
(* Bounds of the model.                                                    *)
(***************************************************************************)
MaxEpochs == 3
MaxPatience == 2
MaxLoss == 3
MaxScore == 1

\* timeout=25_200 passed to utils.Callback by the GraphSAGE driver.
Timeout == 25200

Drivers == {"gat_full_graph", "gat_mini_batch", "graphsage_mini_batch"}
Monitors == {"loss", "score"}
Losses == 1..MaxLoss
Scores == 0..MaxScore
\* Wall-clock duration of one pass, as measured by default_timer().
Durations == {0, Timeout}

(***************************************************************************)
(* utils.Callback.  utils.py is not part of the available sources; the     *)
(* object is modelled from the specification's Training / Evaluation Loop  *)
(* section: one retained best record, replace-on-improve, patience counter,*)
(* cumulative-time timeout.                                                *)
(***************************************************************************)
CallbackNew(patience, monitor, timeout) ==
    [patience |-> patience,
     monitor |-> monitor,
     timeout |-> timeout,
     best_epoch |-> None,
     best_epoch_valid_loss |-> None,
     best_epoch_valid_score |-> None,
     best_epoch_model_parameters |-> None,
     counter |-> 0,
     experiment_time |-> 0]

CallbackImproved(cb, vloss, vscore) ==
    \/ cb.best_epoch = None
    \/ cb.monitor = "loss" /\ vloss < cb.best_epoch_valid_loss
    \/ cb.monitor = "score" /\ vscore > cb.best_epoch_valid_score

\* The cumulative time is kept for the timeout, when one is configured.
CallbackElapsed(cb, ttime, vtime) ==
    IF cb.timeout = None THEN cb.experiment_time
    ELSE cb.experiment_time + ttime + vtime

CallbackCreate(cb, ep, ttime, vtime, vloss, vscore, model) ==
    IF CallbackImproved(cb, vloss, vscore)
    THEN [cb EXCEPT !.best_epoch = ep,
                    !.best_epoch_valid_loss = vloss,
                    !.best_epoch_valid_score = vscore,
                    !.best_epoch_model_parameters = model,
                    !.counter = 0,
                    !.experiment_time = CallbackElapsed(cb, ttime, vtime)]
    ELSE [cb EXCEPT !.counter = @ + 1,
                    !.experiment_time = CallbackElapsed(cb, ttime, vtime)]

CallbackShouldStop(cb) == cb.counter >= cb.patience

CallbackTimeout(cb) == cb.timeout # None /\ cb.experiment_time > cb.timeout

(***************************************************************************)
(* run(): the code from the construction of the checkpoint to the call of  *)
(* log_metrics_to_sigopt.                                                  *)
(***************************************************************************)
\* utils.Callback(args.early_stopping_patience, args.early_stopping_monitor[, timeout=25_200, ...])
NewCheckpoint(d, patience, monitor) ==
    CallbackNew(patience, monitor,
                IF d = "graphsage_mini_batch" THEN Timeout ELSE None)

DrvInit ==
    /\ driver \in Drivers
    /\ num_epochs \in 1..MaxEpochs
    /\ early_stopping_patience \in 1..MaxPatience
    /\ early_stopping_monitor \in Monitors
    /\ test_validation \in BOOLEAN
    /\ pc = "train"
    /\ epoch = 0
    /\ params = 0
    /\ training = TRUE
    /\ checkpoint = NewCheckpoint(driver, early_stopping_patience,
                                  early_stopping_monitor)
    /\ train_time = 0
    /\ valid_time = 0
    /\ valid_loss = None
    /\ valid_score = None
    /\ stop_reason = "running"
    /\ test_params = None
    /\ train_passes = 0
    /\ valid_passes = 0
    /\ creates = 0
    /\ test_evals = 0
    /\ valid_losses = <<>>

\* train(model, ...): model.train(), one pass of optimizer steps, returns the time.
\* Every training pass leaves a new version of the parameters.
Train ==
    /\ UNCHANGED <<trVars, sigVars, convVars, lyrVars, gatVars, eqVars, extVars>>
    /\ pc = "train"
    /\ training' = TRUE
    /\ params' = params + 1
    /\ \E t \in Durations : train_time' = t
    /\ train_passes' = train_passes + 1
    /\ pc' = "validate"
    /\ UNCHANGED <<driver, num_epochs, early_stopping_patience,
                   early_stopping_monitor, test_validation, epoch, checkpoint,
                   valid_time, valid_loss, valid_score, stop_reason, test_params,
                   valid_passes, creates, test_evals, valid_losses>>

\* Variant: the validation pass runs an optimizer step.
Validate_WithStep ==
    /\ UNCHANGED <<trVars, sigVars, convVars, lyrVars, gatVars, eqVars, extVars>>
    /\ pc = "validate"
    /\ training' = FALSE
    /\ params' = params + 1
    /\ \E l \in Losses : /\ valid_loss' = l
                         /\ valid_losses' = Append(valid_losses, l)
    /\ \E s \in Scores : valid_score' = s
    /\ \E t \in Durations : valid_time' = t
    /\ valid_passes' = valid_passes + 1
    /\ pc' = "create"
    /\ UNCHANGED <<driver, num_epochs, early_stopping_patience,
                   early_stopping_monitor, test_validation, epoch,
                   checkpoint, train_time, stop_reason, test_params,
                   train_passes, creates, test_evals>>

\* validate(model, ..., valid_idx): model.eval(), forward under no_grad.
Validate ==
    /\ UNCHANGED <<trVars, sigVars, convVars, lyrVars, gatVars, eqVars, extVars>>
    /\ pc = "validate"
    /\ training' = FALSE
    /\ \E l \in Losses : /\ valid_loss' = l
                         /\ valid_losses' = Append(valid_losses, l)
    /\ \E s \in Scores : valid_score' = s
    /\ \E t \in Durations : valid_time' = t
    /\ valid_passes' = valid_passes + 1
    /\ pc' = "create"
    /\ UNCHANGED <<driver, num_epochs, early_stopping_patience,
                   early_stopping_monitor, test_validation, epoch, params,
                   checkpoint, train_time, stop_reason, test_params,
                   train_passes, creates, test_evals>>

\* Variant: the 1-based epoch number of the progress line is handed over instead.
CreateEpochArg_OneBased(ep) == ep + 1

\* The epoch index the driver hands to checkpoint.create.
CreateEpochArg(ep) == ep

\* checkpoint.create(epoch, train_time, valid_time, ..., model)
CheckpointCreate ==
    /\ UNCHANGED <<trVars, sigVars, convVars, lyrVars, gatVars, eqVars, extVars>>
    /\ pc = "create"
    /\ checkpoint' = CallbackCreate(checkpoint, CreateEpochArg(epoch), train_time,
                                    valid_time, valid_loss, valid_score, params)
    /\ creates' = creates + 1
    /\ pc' = "check_stop"
    /\ UNCHANGED <<driver, num_epochs, early_stopping_patience,
                   early_stopping_monitor, test_validation, epoch, params,
                   training, train_time, valid_time, valid_loss, valid_score,
                   stop_reason, test_params, train_passes, valid_passes,
                   test_evals, valid_losses>>

\* Variant: the should_stop test is missing from the loop body.
LoopBreak_NoEarlyStop(d, cb) ==
    IF d = "graphsage_mini_batch" /\ CallbackTimeout(cb) THEN "timeout"
    ELSE "running"

\* Variant: the GraphSAGE driver lacks the elif branch too.
LoopBreak_NoTimeout(d, cb) ==
    IF CallbackShouldStop(cb) THEN "early_stop" ELSE "running"

\* `if checkpoint.should_stop: break [elif checkpoint.timeout: break]`
\* Only the GraphSAGE driver has the elif branch.
LoopBreak(d, cb) ==
    IF CallbackShouldStop(cb) THEN "early_stop"
    ELSE IF d = "graphsage_mini_batch" /\ CallbackTimeout(cb) THEN "timeout"
    ELSE "running"

\* Variant: the loop bound is off by one.
RangeHasNext_OffByOne(ep, n) == ep + 1 <= n

\* range(args.num_epochs) has another value after ep.
RangeHasNext(ep, n) == ep + 1 < n

\* End of the loop body: break, next epoch, or range exhausted.
LoopTest ==
    /\ UNCHANGED <<trVars, sigVars, convVars, lyrVars, gatVars, eqVars, extVars>>
    /\ pc = "check_stop"
    /\ IF LoopBreak(driver, checkpoint) # "running"
       THEN /\ stop_reason' = LoopBreak(driver, checkpoint)
            /\ pc' = "post_loop"
            /\ epoch' = epoch
       ELSE IF RangeHasNext(epoch, num_epochs)
       THEN /\ epoch' = epoch + 1
            /\ pc' = "train"
            /\ stop_reason' = stop_reason
       ELSE /\ stop_reason' = "completed"
            /\ pc' = "post_loop"
            /\ epoch' = epoch
    /\ UNCHANGED <<driver, num_epochs, early_stopping_patience,
                   early_stopping_monitor, test_validation, params, training,
                   checkpoint, train_time, valid_time, valid_loss, valid_score,
                   test_params, train_passes, valid_passes, creates, test_evals,
                   valid_losses>>

\* Variant: the snapshot is not loaded, the model keeps the last epoch's parameters.
LoadStateDict_Noop(model, snapshot) == model

\* What model.load_state_dict(checkpoint.best_epoch_model_parameters) leaves in the model.
LoadStateDict(model, snapshot) == snapshot

\* `if args.test_validation: model.load_state_dict(...)`, else straight to logging.
PostLoop ==
    /\ UNCHANGED <<trVars, sigVars, convVars, lyrVars, gatVars, eqVars, extVars>>
    /\ pc = "post_loop"
    /\ IF test_validation
       THEN /\ params' = LoadStateDict(params, checkpoint.best_epoch_model_parameters)
            /\ pc' = "test"
       ELSE /\ params' = params
            /\ pc' = "logging"
    /\ UNCHANGED <<driver, num_epochs, early_stopping_patience,
                   early_stopping_monitor, test_validation, epoch, training,
                   checkpoint, train_time, valid_time, valid_loss, valid_score,
                   stop_reason, test_params, train_passes, valid_passes, creates,
                   test_evals, valid_losses>>

\* validate(model, ..., test_idx) after the loop.
TestValidate ==
    /\ UNCHANGED <<trVars, sigVars, convVars, lyrVars, gatVars, eqVars, extVars>>
    /\ pc = "test"
    /\ training' = FALSE
    /\ test_params' = params
    /\ test_evals' = test_evals + 1
    /\ pc' = "logging"
    /\ UNCHANGED <<driver, num_epochs, early_stopping_patience,
                   early_stopping_monitor, test_validation, epoch, params,
                   checkpoint, train_time, valid_time, valid_loss, valid_score,
                   stop_reason, train_passes, valid_passes, creates, valid_losses>>

Init == DrvInit /\ TrIdle /\ SigIdle /\ ConvIdle /\ LyrIdle /\ GatIdle /\ EqIdle /\ ExtIdle

Next ==
    \/ Train
    \/ Validate
    \/ CheckpointCreate
    \/ LoopTest
    \/ PostLoop
    \/ TestValidate

Spec == Init /\ [][Next]_vars

(***************************************************************************)
(* Properties of the epoch loop (specification Spec).                      *)
(***************************************************************************)
InLoopBody == pc \in {"train", "validate", "create"}
LoopEnded == pc \in {"post_loop", "test", "logging"}

\* C1: once the checkpoint reports should_stop after an epoch, the loop ends
\* immediately: control never re-enters the loop body, and the numbers of
\* training passes, validation passes and checkpoint updates stay those of the
\* epoch at which should_stop became true.
C1_EarlyStopEndsLoop ==
    CallbackShouldStop(checkpoint) =>
        /\ ~InLoopBody
        /\ train_passes = epoch + 1
        /\ valid_passes = epoch + 1
        /\ creates = epoch + 1
        /\ LoopEnded => stop_reason = "early_stop"

\* A run stopped early with epochs of range(num_epochs) still left.
C1_Witness ==
    /\ pc = "logging"
    /\ stop_reason = "early_stop"
    /\ CallbackShouldStop(checkpoint)
    /\ epoch + 1 < num_epochs

StrictMinAt(h, k) == \A i \in 1..(k - 1) : h[k] < h[i]
RisesAfter(h, k) == \A j \in (k + 1)..Len(h) : h[j] > h[j - 1]

\* C3: monitor = loss, checkpoint without timeout (the GAT drivers).  If the
\* validation loss of the k-th executed epoch (k counted from 1) is a new strict
\* minimum and the loss strictly increases in every executed epoch after it, and
\* num_epochs >= k + patience, then the loop has halted after exactly
\* k + patience epochs by early stop, and the retained best record is the one of
\* the k-th epoch (epoch index k - 1, the parameters left by the k-th training
\* pass).
C3_HaltsAtKPlusPatience ==
    (LoopEnded /\ early_stopping_monitor = "loss" /\ checkpoint.timeout = None) =>
        \A k \in 1..Len(valid_losses) :
            ( /\ StrictMinAt(valid_losses, k)
              /\ RisesAfter(valid_losses, k)
              /\ num_epochs >= k + early_stopping_patience )
            => /\ Len(valid_losses) = k + early_stopping_patience
               /\ stop_reason = "early_stop"
               /\ checkpoint.best_epoch = k - 1
               /\ checkpoint.best_epoch_model_parameters = k

\* A loss sequence with its minimum at its second epoch or later, rising for
\* `patience` epochs, at the end of which the run stopped early.
C3_Witness ==
    /\ LoopEnded
    /\ early_stopping_monitor = "loss"
    /\ driver = "gat_full_graph"
    /\ stop_reason = "early_stop"
    /\ \E k \in 2..Len(valid_losses) :
          /\ StrictMinAt(valid_losses, k)
          /\ RisesAfter(valid_losses, k)
          /\ Len(valid_losses) = k + early_stopping_patience
          /\ checkpoint.best_epoch = k - 1

\* C5: every executed epoch is one training pass, then one validation pass, then
\* one checkpoint update, then the early-stop test; at most num_epochs epochs run.
C5_OnePassEachPerEpoch ==
    /\ epoch + 1 <= num_epochs
    /\ pc = "train" =>
          train_passes = epoch /\ valid_passes = epoch /\ creates = epoch
    /\ pc = "validate" =>
          train_passes = epoch + 1 /\ valid_passes = epoch /\ creates = epoch
    /\ pc = "create" =>
          train_passes = epoch + 1 /\ valid_passes = epoch + 1 /\ creates = epoch
    /\ (pc = "check_stop" \/ LoopEnded) =>
          train_passes = epoch + 1 /\ valid_passes = epoch + 1 /\ creates = epoch + 1
    /\ Len(valid_losses) = valid_passes

\* A run that executed all of its num_epochs >= 2 epochs.
C5_Witness ==
    /\ pc = "logging"
    /\ stop_reason = "completed"
    /\ num_epochs >= 2
    /\ train_passes = num_epochs /\ valid_passes = num_epochs /\ creates = num_epochs

\* C7: a validation or test pass leaves the parameters unchanged; the parameters
\* change only in a training pass or in the post-loop reload of the best snapshot.
C7_ParamsChangeOnlyByTrainOrReload ==
    [][ /\ pc \in {"validate", "test"} => params' = params
        /\ params' # params => \/ pc = "train"
                               \/ pc = "post_loop" /\ test_validation ]_vars

\* After two or more validation passes and the test pass, with a reload that
\* did replace the last epoch's parameters.
C7_Witness ==
    /\ pc = "logging"
    /\ valid_passes >= 2
    /\ test_evals = 1
    /\ params # train_passes

C9_TimeoutBetweenEpochsOnly ==
    [][ /\ ( /\ pc = "check_stop"
             /\ driver = "graphsage_mini_batch"
             /\ CallbackTimeout(checkpoint) )
           => /\ pc' = "post_loop"
              /\ train_passes' = train_passes
              /\ stop_reason' \in {"timeout", "early_stop"}
        /\ InLoopBody => /\ pc' \in {"validate", "create", "check_stop"}
                         /\ stop_reason' = "running"
        /\ stop_reason' = "timeout" =>
              /\ driver = "graphsage_mini_batch"
              /\ CallbackTimeout(checkpoint')
              /\ creates' = epoch' + 1 ]_vars

\* A timeout with the patience counter below its threshold and epochs left, where
\* the bound was already exceeded before the last validation pass began.
C9_Witness ==
    /\ pc = "post_loop"
    /\ stop_reason = "timeout"
    /\ ~CallbackShouldStop(checkpoint)
    /\ epoch + 1 < num_epochs
    /\ checkpoint.experiment_time - valid_time > Timeout


(***************************************************************************)
(* One training pass, batch by batch.                                      *)
(*   full_graph.train        experiments/gat/full_graph.py train()         *)
(*   mini_batch.train        experiments/gat/mini_batch.py train() and the *)
(*                           identical experiments/graphsage/mini_batch.py *)
(*   train_mini_batch,       models/gat_with_projection.py                 *)
(*   train_full_graph                                                      *)
(* The full-graph functions run the body once, on the whole graph.         *)
(***************************************************************************)
MaxBatches == 3

TrainFunctions == {"full_graph.train", "mini_batch.train",
                   "train_mini_batch", "train_full_graph"}

IsFullGraph(fn) == fn \in {"full_graph.train", "train_full_graph"}

\* Batches per pass: the whole graph is one batch; NodeDataLoader with
\* drop_last=False yields at least one batch for a non-empty training set.
BatchCounts(fn) == IF IsFullGraph(fn) THEN {1} ELSE 1..MaxBatches

TrInit ==
    /\ tr_fn \in TrainFunctions
    /\ tr_num_batches \in BatchCounts(tr_fn)
    /\ tr_pc = "begin"
    /\ tr_step = None
    /\ tr_training \in BOOLEAN
    /\ tr_params = 0
    /\ tr_grad = 0
    /\ tr_loss = None
    /\ tr_total_loss = 0
    /\ tr_zero_grads = 0
    /\ tr_forwards = 0
    /\ tr_losses = 0
    /\ tr_backwards = 0
    /\ tr_opt_steps = 0

\* model.train(); total_loss = 0; the first batch is fetched.
TrainBegin ==
    /\ UNCHANGED <<drvVars, sigVars, convVars, lyrVars, gatVars, eqVars, extVars>>
    /\ tr_pc = "begin"
    /\ tr_training' = TRUE
    /\ tr_total_loss' = 0
    /\ tr_step' = 0
    /\ tr_pc' = "zero_grad"
    /\ UNCHANGED <<tr_fn, tr_num_batches, tr_params, tr_grad, tr_loss,
                   tr_zero_grads, tr_forwards, tr_losses, tr_backwards,
                   tr_opt_steps>>

\* Variant: the gradients are cleared once, before the loop over the batches.
ZeroGrad_OnlyFirstBatch ==
    /\ UNCHANGED <<drvVars, sigVars, convVars, lyrVars, gatVars, eqVars, extVars>>
    /\ tr_pc = "zero_grad"
    /\ tr_grad' = (IF tr_step = 0 THEN 0 ELSE tr_grad)
    /\ tr_zero_grads' = (IF tr_step = 0 THEN tr_zero_grads + 1 ELSE tr_zero_grads)
    /\ tr_pc' = "forward"
    /\ UNCHANGED <<tr_fn, tr_num_batches, tr_step, tr_training, tr_params,
                   tr_loss, tr_total_loss, tr_forwards, tr_losses,
                   tr_backwards, tr_opt_steps>>

\* optimizer.zero_grad()
ZeroGrad ==
    /\ UNCHANGED <<drvVars, sigVars, convVars, lyrVars, gatVars, eqVars, extVars>>
    /\ tr_pc = "zero_grad"
    /\ tr_grad' = 0
    /\ tr_zero_grads' = tr_zero_grads + 1
    /\ tr_pc' = "forward"
    /\ UNCHANGED <<tr_fn, tr_num_batches, tr_step, tr_training, tr_params,
                   tr_loss, tr_total_loss, tr_forwards, tr_losses,
                   tr_backwards, tr_opt_steps>>

\* logits = model(...)
Forward ==
    /\ UNCHANGED <<drvVars, sigVars, convVars, lyrVars, gatVars, eqVars, extVars>>
    /\ tr_pc = "forward"
    /\ tr_forwards' = tr_forwards + 1
    /\ tr_pc' = "loss"
    /\ UNCHANGED <<tr_fn, tr_num_batches, tr_step, tr_training, tr_params,
                   tr_grad, tr_loss, tr_total_loss, tr_zero_grads, tr_losses,
                   tr_backwards, tr_opt_steps>>

\* loss = loss_function(logits, labels) (and the score)
Loss ==
    /\ UNCHANGED <<drvVars, sigVars, convVars, lyrVars, gatVars, eqVars, extVars>>
    /\ tr_pc = "loss"
    /\ \E l \in Losses : tr_loss' = l
    /\ tr_losses' = tr_losses + 1
    /\ tr_pc' = "backward"
    /\ UNCHANGED <<tr_fn, tr_num_batches, tr_step, tr_training, tr_params,
                   tr_grad, tr_total_loss, tr_zero_grads, tr_forwards,
                   tr_backwards, tr_opt_steps>>

\* loss.backward(): the batch's gradients are added to .grad
Backward ==
    /\ UNCHANGED <<drvVars, sigVars, convVars, lyrVars, gatVars, eqVars, extVars>>
    /\ tr_pc = "backward"
    /\ tr_grad' = tr_grad + 1
    /\ tr_backwards' = tr_backwards + 1
    /\ tr_pc' = "step"
    /\ UNCHANGED <<tr_fn, tr_num_batches, tr_step, tr_training, tr_params,
                   tr_loss, tr_total_loss, tr_zero_grads, tr_forwards,
                   tr_losses, tr_opt_steps>>

\* optimizer.step(); total_loss += loss.item(); then the next batch, if any.
OptimizerStep ==
    /\ UNCHANGED <<drvVars, sigVars, convVars, lyrVars, gatVars, eqVars, extVars>>
    /\ tr_pc = "step"
    /\ tr_params' = tr_params + 1
    /\ tr_opt_steps' = tr_opt_steps + 1
    /\ tr_total_loss' = (IF IsFullGraph(tr_fn) THEN tr_total_loss
                         ELSE tr_total_loss + tr_loss)
    /\ IF tr_step + 1 < tr_num_batches
       THEN tr_step' = tr_step + 1 /\ tr_pc' = "zero_grad"
       ELSE tr_step' = tr_step /\ tr_pc' = "end"
    /\ UNCHANGED <<tr_fn, tr_num_batches, tr_training, tr_grad, tr_loss,
                   tr_zero_grads, tr_forwards, tr_losses, tr_backwards>>

\* total_loss /= step + 1; return time, total_loss, total_score
\* (the full-graph functions return the loss of their single batch).
TrainReturn ==
    /\ UNCHANGED <<drvVars, sigVars, convVars, lyrVars, gatVars, eqVars, extVars>>
    /\ tr_pc = "end"
    /\ tr_total_loss' = (IF IsFullGraph(tr_fn) THEN tr_loss
                         ELSE tr_total_loss \div (tr_step + 1))
    /\ tr_pc' = "returned"
    /\ UNCHANGED <<tr_fn, tr_num_batches, tr_step, tr_training, tr_params,
                   tr_grad, tr_loss, tr_zero_grads, tr_forwards, tr_losses,
                   tr_backwards, tr_opt_steps>>

InitTrain == DrvIdle /\ TrInit /\ SigIdle /\ ConvIdle /\ LyrIdle /\ GatIdle /\ EqIdle /\ ExtIdle

NextTrain ==
    \/ TrainBegin
    \/ ZeroGrad
    \/ Forward
    \/ Loss
    \/ Backward
    \/ OptimizerStep
    \/ TrainReturn

SpecTrain == InitTrain /\ [][NextTrain]_vars

(***************************************************************************)
(* Properties of a training pass (specification SpecTrain).                *)
(***************************************************************************)
TrCounters == <<tr_zero_grads, tr_forwards, tr_losses, tr_backwards, tr_opt_steps>>

\* C6: within a pass, batch n (n = tr_step, from 0) goes through clear
\* gradients, forward, loss, backward, optimizer step in this order, each once,
\* and only after the step of batch n does anything of batch n + 1 happen; the
\* step applies the gradients of that one batch; the pass ends with as many
\* optimizer steps as batches, which is one for the full-graph functions.
C6_StepPerBatchInOrder ==
    /\ tr_pc = "begin" => TrCounters = <<0, 0, 0, 0, 0>>
    /\ tr_pc = "zero_grad" =>
          TrCounters = <<tr_step, tr_step, tr_step, tr_step, tr_step>>
    /\ tr_pc = "forward" =>
          TrCounters = <<tr_step + 1, tr_step, tr_step, tr_step, tr_step>>
    /\ tr_pc = "loss" =>
          TrCounters = <<tr_step + 1, tr_step + 1, tr_step, tr_step, tr_step>>
    /\ tr_pc = "backward" =>
          TrCounters = <<tr_step + 1, tr_step + 1, tr_step + 1, tr_step, tr_step>>
    /\ tr_pc = "step" =>
          /\ TrCounters = <<tr_step + 1, tr_step + 1, tr_step + 1, tr_step + 1, tr_step>>
          /\ tr_grad = 1
    /\ tr_pc \in {"end", "returned"} =>
          /\ TrCounters = <<tr_num_batches, tr_num_batches, tr_num_batches,
                            tr_num_batches, tr_num_batches>>
          /\ IsFullGraph(tr_fn) => tr_opt_steps = 1
    /\ tr_params = tr_opt_steps

\* A mini-batch pass over two or more batches has returned.
C6_Witness ==
    /\ tr_pc = "returned"
    /\ tr_fn = "mini_batch.train"
    /\ tr_num_batches >= 2
    /\ tr_opt_steps = tr_num_batches


(***************************************************************************)
(* do_sigopt_run() of sigopt/ogbn-arxiv-full-batch-GAT/                    *)
(* gat_full_batch_training_run.py: the training loop with its best-epoch   *)
(* and early-stopping bookkeeping.                                         *)
(***************************************************************************)
MaxSigEpochs == 22
MaxAccuracy == 2

\* `if early_stopping_counter >= 20`
EarlyStopThreshold == 20

\* default of --number_of_epochs
DefaultNumberOfEpochs == 20

Accuracies == 0..MaxAccuracy
NumberOfEpochsChoices == {1, DefaultNumberOfEpochs, MaxSigEpochs}

\* best_accuracy = None is the record without a value and an epoch.
NoBest == [value |-> None, epoch |-> None]

BestIsNone(best) == best = NoBest

\* The first branch of the bookkeeping: `best_accuracy is None or test_accuracy > best_accuracy['value']`
SigImproved(best, acc) == BestIsNone(best) \/ acc > best.value

\* The second branch: `best_accuracy is not None and test_accuracy < best_accuracy['value']`
SigWorse(best, acc) == ~BestIsNone(best) /\ acc < best.value

\* Variant: an accuracy equal to the best replaces the record.
SigBestAfter_Latest(best, acc, ep) ==
    IF BestIsNone(best) \/ acc >= best.value THEN [value |-> acc, epoch |-> ep] ELSE best

SigBestAfter(best, acc, ep) ==
    IF SigImproved(best, acc) THEN [value |-> acc, epoch |-> ep] ELSE best

\* Variant: a plain else in place of the elif.
SigCounterAfter_Else(best, counter, acc) ==
    IF SigImproved(best, acc) THEN 0 ELSE counter + 1

SigCounterAfter(best, counter, acc) ==
    IF SigImproved(best, acc) THEN 0
    ELSE IF SigWorse(best, acc) THEN counter + 1
    ELSE counter

SigInit ==
    /\ number_of_epochs \in NumberOfEpochsChoices
    /\ sig_pc = "train"
    /\ sig_epoch = 1
    /\ test_accuracy = None
    /\ best_accuracy = NoBest
    /\ early_stopping_counter = 0
    /\ early_stop_prints = 0

\* train(...), validate(..., test_idx), the appends to the per-epoch lists, the progress line
SigTrainValidate ==
    /\ UNCHANGED <<drvVars, trVars, convVars, lyrVars, gatVars, eqVars, extVars>>
    /\ sig_pc = "train"
    /\ \E a \in Accuracies : test_accuracy' = a
    /\ sig_pc' = "early_stopping_check"
    /\ UNCHANGED <<number_of_epochs, sig_epoch, best_accuracy,
                   early_stopping_counter, early_stop_prints>>

\* "early stopping check and best epoch logging"
SigEarlyStoppingCheck ==
    /\ UNCHANGED <<drvVars, trVars, convVars, lyrVars, gatVars, eqVars, extVars>>
    /\ sig_pc = "early_stopping_check"
    /\ best_accuracy' = SigBestAfter(best_accuracy, test_accuracy, sig_epoch)
    /\ early_stopping_counter' =
          SigCounterAfter(best_accuracy, early_stopping_counter, test_accuracy)
    /\ early_stop_prints' =
          (IF /\ SigWorse(best_accuracy, test_accuracy)
              /\ ~SigImproved(best_accuracy, test_accuracy)
              /\ early_stopping_counter + 1 >= EarlyStopThreshold
           THEN early_stop_prints + 1 ELSE early_stop_prints)
    /\ sig_pc' = "log"
    /\ UNCHANGED <<number_of_epochs, sig_epoch, test_accuracy>>

\* "intermediate metrics", then the next value of range(1, 1 + number_of_epochs), if any
SigLogCheckpoint ==
    /\ UNCHANGED <<drvVars, trVars, convVars, lyrVars, gatVars, eqVars, extVars>>
    /\ sig_pc = "log"
    /\ IF sig_epoch < number_of_epochs
       THEN sig_epoch' = sig_epoch + 1 /\ sig_pc' = "train"
       ELSE sig_epoch' = sig_epoch /\ sig_pc' = "final"
    /\ UNCHANGED <<number_of_epochs, test_accuracy, best_accuracy,
                   early_stopping_counter, early_stop_prints>>

\* "final metrics" and the convergence plot
SigFinalMetrics ==
    /\ UNCHANGED <<drvVars, trVars, convVars, lyrVars, gatVars, eqVars, extVars>>
    /\ sig_pc = "final"
    /\ sig_pc' = "done"
    /\ UNCHANGED <<number_of_epochs, sig_epoch, test_accuracy, best_accuracy,
                   early_stopping_counter, early_stop_prints>>

InitSigOpt == DrvIdle /\ TrIdle /\ SigInit /\ ConvIdle /\ LyrIdle /\ GatIdle /\ EqIdle /\ ExtIdle

NextSigOpt ==
    \/ SigTrainValidate
    \/ SigEarlyStoppingCheck
    \/ SigLogCheckpoint
    \/ SigFinalMetrics

SpecSigOpt == InitSigOpt /\ [][NextSigOpt]_vars

(***************************************************************************)
(* Properties of do_sigopt_run() (specification SpecSigOpt).               *)
(***************************************************************************)
\* C2: when the early-stopping counter has reached its threshold (20), the
\* epoch loop halts: no further epoch is started.
C2_LoopHaltsAtThreshold ==
    early_stopping_counter >= EarlyStopThreshold => sig_pc # "train"

\* C4 as stated: in the bookkeeping step, an improved accuracy replaces the best
\* record and resets the counter to 0; in every other case, a tie included, the
\* counter goes up by one.
C4_ElseIncrements ==
    [][ sig_pc = "early_stopping_check" =>
          IF BestIsNone(best_accuracy) \/ test_accuracy > best_accuracy.value
          THEN /\ best_accuracy' = [value |-> test_accuracy, epoch |-> sig_epoch]
               /\ early_stopping_counter' = 0
          ELSE /\ best_accuracy' = best_accuracy
               /\ early_stopping_counter' = early_stopping_counter + 1 ]_vars

\* C4 amended: an improved accuracy (the first epoch's, or one strictly above the
\* best) replaces the best record and resets the counter to 0; an accuracy
\* strictly below the best leaves the record and adds one to the counter; an
\* accuracy equal to the best leaves both the record and the counter unchanged.
C4_TieLeavesCounter ==
    [][ sig_pc = "early_stopping_check" =>
          IF BestIsNone(best_accuracy) \/ test_accuracy > best_accuracy.value
          THEN /\ best_accuracy' = [value |-> test_accuracy, epoch |-> sig_epoch]
               /\ early_stopping_counter' = 0
          ELSE IF test_accuracy < best_accuracy.value
          THEN /\ best_accuracy' = best_accuracy
               /\ early_stopping_counter' = early_stopping_counter + 1
          ELSE /\ best_accuracy' = best_accuracy
               /\ early_stopping_counter' = early_stopping_counter ]_vars

\* After the bookkeeping of an epoch whose accuracy tied with the best, with
\* earlier epochs both below the best (counter > 0) and tied with it.
C4_Witness ==
    /\ sig_pc = "log"
    /\ ~BestIsNone(best_accuracy)
    /\ best_accuracy.epoch < sig_epoch
    /\ test_accuracy = best_accuracy.value
    /\ early_stopping_counter >= 1
    /\ early_stopping_counter < sig_epoch - best_accuracy.epoch


(***************************************************************************)
(* GATConv.forward of models/gat_with_projection.py.                       *)
(* A graph is its node counts and its edge list (edge id -> <<source,      *)
(* destination>>); in a block the destination nodes are the first          *)
(* num_dst_nodes source nodes.                                             *)
(***************************************************************************)
MaxNodes == 2
MaxEdges == 3

EdgeLists(ns, nd) == UNION {[1..n -> (1..ns) \X (1..nd)] : n \in 0..MaxEdges}

FullGraphs ==
    UNION {{[is_block |-> FALSE, num_src_nodes |-> n, num_dst_nodes |-> n,
             edges |-> e] : e \in EdgeLists(n, n)} : n \in 1..MaxNodes}

Blocks ==
    UNION {{[is_block |-> TRUE, num_src_nodes |-> q[1], num_dst_nodes |-> q[2],
             edges |-> e] : e \in EdgeLists(q[1], q[2])} :
           q \in {r \in (1..MaxNodes) \X (1..MaxNodes) : r[2] <= r[1]}}

Graphs == FullGraphs \cup Blocks

\* g.in_degrees()[v], g.out_degrees()[u]
InDegree(gr, v) == Cardinality({i \in DOMAIN gr.edges : gr.edges[i][2] = v})
OutDegree(gr, u) == Cardinality({i \in DOMAIN gr.edges : gr.edges[i][1] = u})

\* Variant: the out-degrees are tested.
HasZeroOutDegree(gr) == \E u \in 1..gr.num_src_nodes : OutDegree(gr, u) = 0

\* (g.in_degrees() == 0).any()
HasZeroInDegree(gr) == \E v \in 1..gr.num_dst_nodes : InDegree(gr, v) = 0

ConvInit ==
    /\ g \in Graphs
    /\ allow_zero_in_degree \in BOOLEAN
    /\ conv_pc = "entry"
    /\ conv_error = "none"
    /\ conv_out_rows = None

\* `if not self._allow_zero_in_degree: if (g.in_degrees() == 0).any(): assert False`
ConvZeroInDegreeCheck ==
    /\ UNCHANGED <<drvVars, trVars, sigVars, lyrVars, gatVars, eqVars, extVars>>
    /\ conv_pc = "entry"
    /\ IF ~allow_zero_in_degree /\ HasZeroInDegree(g)
       THEN conv_pc' = "raised" /\ conv_error' = "AssertionError"
       ELSE conv_pc' = "body" /\ conv_error' = conv_error
    /\ UNCHANGED <<g, allow_zero_in_degree, conv_out_rows>>

\* The rest of forward: projections, attention, aggregation; x has one row per
\* destination node.
ConvForwardBody ==
    /\ UNCHANGED <<drvVars, trVars, sigVars, lyrVars, gatVars, eqVars, extVars>>
    /\ conv_pc = "body"
    /\ conv_out_rows' = g.num_dst_nodes
    /\ conv_pc' = "returned"
    /\ UNCHANGED <<g, allow_zero_in_degree, conv_error>>

InitConv == DrvIdle /\ TrIdle /\ SigIdle /\ ConvInit /\ LyrIdle /\ GatIdle /\ EqIdle /\ ExtIdle

NextConv ==
    \/ ConvZeroInDegreeCheck
    \/ ConvForwardBody

SpecConv == InitConv /\ [][NextConv]_vars

(***************************************************************************)
(* Properties of GATConv.forward (specification SpecConv).                 *)
(***************************************************************************)
\* Some destination node is the destination of no edge.
SomeNodeWithoutInEdge ==
    \E v \in 1..g.num_dst_nodes : \A i \in DOMAIN g.edges : g.edges[i][2] # v

\* C10: with allow_zero_in_degree false and a node of in-degree 0, forward
\* raises the assertion and produces no output; with allow_zero_in_degree true,
\* or with every in-degree at least 1, the assertion is never raised.
C10_ZeroInDegreeAssertion ==
    /\ (~allow_zero_in_degree /\ SomeNodeWithoutInEdge) =>
          /\ conv_pc \in {"entry", "raised"}
          /\ conv_out_rows = None
          /\ conv_pc # "entry" => conv_error = "AssertionError"
    /\ (allow_zero_in_degree \/ ~SomeNodeWithoutInEdge) =>
          /\ conv_error # "AssertionError"
          /\ conv_pc # "raised"

\* The assertion was raised on a graph where one node has incoming edges and
\* another has none.
C10_Witness ==
    /\ conv_pc = "raised"
    /\ conv_error = "AssertionError"
    /\ g.num_dst_nodes >= 2
    /\ Len(g.edges) >= 1



(***************************************************************************)
(* Exact arithmetic for the tensor values of GATConv.forward.              *)
(* A rational is <<numerator, denominator>> in lowest terms with a         *)
(* positive denominator.  torch.pow(degrees, -0.5) yields square roots, so *)
(* a tensor element is a sum  c[1] + c[2]*sqrt(2) + c[3]*sqrt(3) + ...  of *)
(* rationals times roots of squarefree numbers: a function from Rads to    *)
(* rationals.  Two such sums are equal as real numbers exactly when their  *)
(* coefficients are equal.                                                 *)
(***************************************************************************)
Abs(n) == IF n < 0 THEN 0 - n ELSE n

RECURSIVE GCD(_, _)
GCD(a, b) == IF b = 0 THEN a ELSE GCD(b, a % b)

Rat(n, d) ==
    LET k == GCD(Abs(n), Abs(d))
        s == IF d < 0 THEN 0 - 1 ELSE 1
    IN  <<(s * n) \div k, (s * d) \div k>>

RatZero == <<0, 1>>
RatOne == <<1, 1>>
RatOfInt(n) == <<n, 1>>

RatAdd(p, q) ==
    LET l == (p[2] \div GCD(p[2], q[2])) * q[2]
    IN  Rat(p[1] * (l \div p[2]) + q[1] * (l \div q[2]), l)

RatMul(p, q) ==
    LET a == Rat(p[1], q[2])
        b == Rat(q[1], p[2])
    IN  <<a[1] * b[1], a[2] * b[2]>>

RatNeg(p) == <<0 - p[1], p[2]>>
RatLess(p, q) == p[1] * q[2] < q[1] * p[2]

RECURSIVE Pow2(_)
Pow2(n) == IF n = 0 THEN 1 ELSE 2 * Pow2(n - 1)

\* The largest k with k*k dividing n, and n without its square part.
SqPart(n) == CHOOSE k \in 1..n : n % (k * k) = 0 /\ \A j \in (k + 1)..n : n % (j * j) # 0
SqFree(n) == n \div (SqPart(n) * SqPart(n))

\* Largest number of edges of a graph handed to the detailed forward; the
\* largest degree a node of a modelled graph can have.
MaxLyrEdges == 2
MaxDegree == IF MaxEdges > MaxLyrEdges THEN MaxEdges ELSE MaxLyrEdges

RECURSIVE Factorial(_)
Factorial(n) == IF n <= 1 THEN 1 ELSE n * Factorial(n - 1)

\* The squarefree numbers built from the primes up to MaxDegree.
Rads == {r \in 1..Factorial(MaxDegree) : Factorial(MaxDegree) % r = 0 /\ SqFree(r) = r}

RealOfRat(q) == [r \in Rads |-> IF r = 1 THEN q ELSE RatZero]
RealOfInt(n) == RealOfRat(RatOfInt(n))
RealZero == RealOfInt(0)
RealAdd(a, b) == [r \in Rads |-> RatAdd(a[r], b[r])]
RealScale(a, q) == [r \in Rads |-> RatMul(a[r], q)]

\* a * n^(-1/2), with  1/sqrt(n) = sqrt(s) / (k*s)  for n = k*k*s, s squarefree,
\* and  sqrt(r)*sqrt(s) = SqPart(r*s) * sqrt(SqFree(r*s)).
RealDivSqrt(a, n) ==
    LET s == SqFree(n)
        k == SqPart(n)
    IN  [r2 \in Rads |->
            LET r == SqFree(r2 * s)
            IN  RatMul(a[r], Rat(SqPart(r * s), k * s))]

\* Rational bounds of sqrt(r), to three decimals.
SqrtLo(r) == Rat(CHOOSE k \in 0..(1000 * r) : k * k <= 1000000 * r /\ (k + 1) * (k + 1) > 1000000 * r, 1000)
SqrtHi(r) == IF SqPart(r) * SqPart(r) = r THEN SqrtLo(r) ELSE RatAdd(SqrtLo(r), Rat(1, 1000))

RECURSIVE RatSum(_, _)
RatSum(f, S) ==
    IF S = {} THEN RatZero
    ELSE LET r == CHOOSE r \in S : TRUE IN RatAdd(f[r], RatSum(f, S \ {r}))

RealLowerBound(a) ==
    RatSum([r \in Rads |-> RatMul(a[r], IF a[r][1] >= 0 THEN SqrtLo(r) ELSE SqrtHi(r))], Rads)
RealUpperBound(a) ==
    RatSum([r \in Rads |-> RatMul(a[r], IF a[r][1] >= 0 THEN SqrtHi(r) ELSE SqrtLo(r))], Rads)

\* a < 0.  Decided by the signs of the coefficients, else by the bounds.
RealNegative(a) ==
    IF \A r \in Rads : a[r][1] >= 0 THEN FALSE
    ELSE IF \A r \in Rads : a[r][1] <= 0 THEN TRUE
    ELSE CHOOSE b \in BOOLEAN :
            /\ b => RealUpperBound(a)[1] < 0
            /\ ~b => RealLowerBound(a)[1] > 0



(***************************************************************************)
(* GATConv of models/gat_with_projection.py in detail: __init__, then      *)
(* forward calls in training or evaluation mode.                           *)
(* Tensors hold one channel per row (one head, one output feature); the    *)
(* shape produced by .view(-1, num_heads, out_feats) is carried beside     *)
(* the values.  edge_inputs is None and activation is None, as in every    *)
(* GATConv that GAT.__init__ builds without an edge encoder.               *)
(***************************************************************************)
Norms == {"none", "left", "right", "both"}
\* edge_dropout and attn_dropout, in percent
EdgeDropoutRates == {0, 30, 50}
AttnDropoutRates == {0, 50}
NodeCounts == {1, 2}
InputValues == {0 - 1, 1}

LyrEdgeLists(ns, nd) == UNION {[1..n -> (1..ns) \X (1..nd)] : n \in 0..MaxLyrEdges}

LyrShapes ==
    {q \in BOOLEAN \X NodeCounts \X NodeCounts :
        IF q[1] THEN q[3] <= q[2] ELSE q[3] = q[2]}

LyrGraphs ==
    UNION {{[is_block |-> q[1], num_src_nodes |-> q[2], num_dst_nodes |-> q[3],
             edges |-> el] : el \in LyrEdgeLists(q[2], q[3])} : q \in LyrShapes}

\* The parameters of the module: weights of the bias-free nn.Linear layers.
Weights == [fc_src |-> 2, fc_dst |-> 3, attn_fc_src |-> 5, attn_fc_dst |-> 10]

\* negative_slope = 0.2
NegativeSlope == <<1, 5>>

NoModule == [constructed |-> FALSE]
NoFrames == [src |-> <<>>, dst |-> <<>>, edge |-> <<>>]
NoGraph == [is_block |-> FALSE, num_src_nodes |-> 0, num_dst_nodes |-> 0, edges |-> <<>>]

SrcOf(gr, i) == gr.edges[i][1]
DstOf(gr, i) == gr.edges[i][2]
NumEdges(gr) == Len(gr.edges)
InEdges(gr, v) == {i \in DOMAIN gr.edges : DstOf(gr, i) = v}

\* g.srcdata.update / g.dstdata.update / g.edata.update: in a graph that is not
\* a block, srcdata and dstdata are the one node frame.
SrcUpdate(fr, gr, key, val) ==
    IF gr.is_block THEN [fr EXCEPT !.src = (key :> val) @@ fr.src]
    ELSE [fr EXCEPT !.src = (key :> val) @@ fr.src, !.dst = (key :> val) @@ fr.dst]
DstUpdate(fr, gr, key, val) ==
    IF gr.is_block THEN [fr EXCEPT !.dst = (key :> val) @@ fr.dst]
    ELSE [fr EXCEPT !.src = (key :> val) @@ fr.src, !.dst = (key :> val) @@ fr.dst]
EdgeUpdate(fr, key, val) == [fr EXCEPT !.edge = (key :> val) @@ fr.edge]

\* nn.Linear(..., bias=False) on one value per row
Linear(w, t) == [i \in DOMAIN t |-> w * t[i]]

\* tensor.view(-1, num_heads, out_feats) of a (rows, num_heads * out_feats) tensor
ViewShape(rows, num_heads, out_feats) ==
    <<(rows * (out_feats * num_heads)) \div (num_heads * out_feats), num_heads, out_feats>>

\* g.out_degrees().float().clamp(min=1), g.in_degrees().float().clamp(min=1)
ClampMin1(d) == IF d < 1 THEN 1 ELSE d
ClampedOutDegrees(gr) == [u \in 1..gr.num_src_nodes |-> ClampMin1(OutDegree(gr, u))]
ClampedInDegrees(gr) == [v \in 1..gr.num_dst_nodes |-> ClampMin1(InDegree(gr, v))]

\* torch.pow(degrees, -0.5) and 1 / degrees, applied to a tensor row
ScalePowMinusHalf(a, d) == RealDivSqrt(a, d)
ScaleReciprocal(a, d) == RealScale(a, Rat(1, d))

\* nn.LeakyReLU(negative_slope) on an integer logit; the logits of this model
\* are multiples of the slope's denominator, so the result is an integer.
LeakyRelu(v) == IF v >= 0 THEN v ELSE (v * NegativeSlope[1]) \div NegativeSlope[2]

\* exp of an integer logit.  Base 2 stands for base e: the softmax weights stay
\* rational, positive and strictly increasing in the logit.
Exp(l) == IF l >= 0 THEN <<Pow2(l), 1>> ELSE <<1, Pow2(0 - l)>>



\* (num_heads, out_feats) of the modelled layers
HeadShapes == {<<1, 1>>, <<2, 3>>}

ConvArgs ==
    {[residual |-> r, norm |-> n, use_attn_dst |-> a, edge_dropout |-> ep,
      attn_dropout |-> ap, num_heads |-> hs[1], out_feats |-> hs[2]] :
        r \in BOOLEAN, n \in Norms, a \in BOOLEAN, ep \in EdgeDropoutRates,
        ap \in AttnDropoutRates, hs \in HeadShapes}

NoTensor == <<>>
NoReturn == [x |-> NoTensor, shape |-> <<>>]

\* The state before GATConv(...) is called, for constructor arguments from
\* argset, a graph from graphs, input values from values and `budget` forward
\* calls to run.
LyrInitWith(argset, graphs, values, budget) ==
    /\ conv_args \in argset
    /\ gatconv = NoModule
    /\ lyr_pc = "init"
    /\ lyr_error = "none"
    /\ graph \in graphs
    /\ frames = NoFrames
    /\ node_inputs \in [1..graph.num_src_nodes -> values]
    /\ module_training = TRUE
    /\ node_inputs_dst = NoTensor
    /\ feat_fc_src = NoTensor
    /\ feat_fc_dst = NoTensor
    /\ edge_e = NoTensor
    /\ eids = {}
    /\ out_x = NoTensor
    /\ returned = NoReturn
    /\ pass_kind = "none"
    /\ passes_left = budget
    /\ pass_log = <<>>

\* nn.Parameter(out_feats * num_heads): the data is an int, not a tensor.
\* Parameter.__new__ hands it to Tensor._make_subclass (TypeError) or calls
\* data.detach() on it (AttributeError), depending on the torch release.
ParameterOfIntErrors == {"TypeError", "AttributeError"}

\* GATConv.__init__
GATConvInit ==
    /\ UNCHANGED <<drvVars, trVars, sigVars, convVars, gatVars, eqVars, extVars>>
    /\ lyr_pc = "init"
    /\ IF conv_args.residual
       THEN /\ gatconv' = [constructed |-> TRUE,
                           out_feats |-> conv_args.out_feats,
                           num_heads |-> conv_args.num_heads,
                           norm |-> conv_args.norm,
                           attn_dropout |-> conv_args.attn_dropout,
                           edge_dropout |-> conv_args.edge_dropout,
                           fc_dst |-> "Linear",
                           bias |-> "None",
                           attn_fc_dst |-> IF conv_args.use_attn_dst
                                           THEN "Linear" ELSE "None"]
            /\ lyr_pc' = "ready"
            /\ lyr_error' = lyr_error
       ELSE /\ \E err \in ParameterOfIntErrors : lyr_error' = err
            /\ lyr_pc' = "raised"
            /\ gatconv' = gatconv
    /\ UNCHANGED <<conv_args, graph, frames, node_inputs, module_training,
                   node_inputs_dst, feat_fc_src, feat_fc_dst, edge_e, eids,
                   out_x, returned, pass_kind, passes_left, pass_log>>

\* model.train() at the head of a training pass, then the forward call.
ModelTrain ==
    /\ UNCHANGED <<drvVars, trVars, sigVars, convVars, gatVars, eqVars, extVars>>
    /\ lyr_pc = "ready"
    /\ passes_left > 0
    /\ module_training' = TRUE
    /\ pass_kind' = "train"
    /\ passes_left' = passes_left - 1
    /\ lyr_pc' = "forward"
    /\ UNCHANGED <<conv_args, gatconv, lyr_error, graph, frames, node_inputs,
                   node_inputs_dst, feat_fc_src, feat_fc_dst, edge_e, eids,
                   out_x, returned, pass_log>>

\* model.eval() at the head of validate(), called with the validation mask or
\* the test mask, then the forward call.
ModelEval ==
    /\ UNCHANGED <<drvVars, trVars, sigVars, convVars, gatVars, eqVars, extVars>>
    /\ lyr_pc = "ready"
    /\ passes_left > 0
    /\ module_training' = FALSE
    /\ \E mask \in {"valid", "test"} : pass_kind' = mask
    /\ passes_left' = passes_left - 1
    /\ lyr_pc' = "forward"
    /\ UNCHANGED <<conv_args, gatconv, lyr_error, graph, frames, node_inputs,
                   node_inputs_dst, feat_fc_src, feat_fc_dst, edge_e, eids,
                   out_x, returned, pass_log>>



\* Variant: the last num_dst_nodes rows are taken.
DstRows_Tail(gr, t) ==
    IF gr.is_block THEN SubSeq(t, Len(t) - gr.num_dst_nodes + 1, Len(t)) ELSE t

\* node_inputs[:g.num_dst_nodes()] for a block, node_inputs otherwise
DstRows(gr, t) == IF gr.is_block THEN SubSeq(t, 1, gr.num_dst_nodes) ELSE t

RealLinear(w, t) == [i \in DOMAIN t |-> RealOfInt(w * t[i])]

\* forward, lines 100-108: the destination rows and the two projections.
\* self._fc_dst is called whether or not it is None.
FwdProject ==
    /\ UNCHANGED <<drvVars, trVars, sigVars, convVars, gatVars, eqVars, extVars>>
    /\ lyr_pc = "forward"
    /\ node_inputs_dst' = DstRows(graph, node_inputs)
    /\ feat_fc_src' = RealLinear(Weights.fc_src, node_inputs)
    /\ IF gatconv.fc_dst = "None"
       THEN /\ lyr_error' = "TypeError"
            /\ lyr_pc' = "raised"
            /\ feat_fc_dst' = feat_fc_dst
       ELSE /\ feat_fc_dst' = RealLinear(Weights.fc_dst, node_inputs_dst')
            /\ lyr_pc' = "norm_src"
            /\ lyr_error' = lyr_error
    /\ UNCHANGED <<conv_args, gatconv, graph, frames, node_inputs,
                   module_training, edge_e, eids, out_x, returned, pass_kind,
                   passes_left, pass_log>>

\* Variant: 'right' in place of 'left' on the source side.
NormSrc_RightAtSource(norm, gr, t) ==
    IF norm \in {"both", "right"}
    THEN [u \in DOMAIN t |->
            IF norm = "both"
            THEN ScalePowMinusHalf(t[u], ClampedOutDegrees(gr)[u])
            ELSE ScaleReciprocal(t[u], ClampedOutDegrees(gr)[u])]
    ELSE t

\* lines 110-121: feat_fc_src *= norm
NormSrc(norm, gr, t) ==
    IF norm \in {"both", "left"}
    THEN [u \in DOMAIN t |->
            IF norm = "both"
            THEN ScalePowMinusHalf(t[u], ClampedOutDegrees(gr)[u])
            ELSE ScaleReciprocal(t[u], ClampedOutDegrees(gr)[u])]
    ELSE t

\* lines 163-174: x *= norm
NormDst(norm, gr, t) ==
    IF norm \in {"both", "right"}
    THEN [v \in DOMAIN t |->
            IF norm = "both"
            THEN ScalePowMinusHalf(t[v], ClampedInDegrees(gr)[v])
            ELSE ScaleReciprocal(t[v], ClampedInDegrees(gr)[v])]
    ELSE t

FwdNormSrc ==
    /\ UNCHANGED <<drvVars, trVars, sigVars, convVars, gatVars, eqVars, extVars>>
    /\ lyr_pc = "norm_src"
    /\ feat_fc_src' = NormSrc(gatconv.norm, graph, feat_fc_src)
    /\ lyr_pc' = "attention"
    /\ UNCHANGED <<conv_args, gatconv, lyr_error, graph, frames, node_inputs,
                   module_training, node_inputs_dst, feat_fc_dst, edge_e, eids,
                   out_x, returned, pass_kind, passes_left, pass_log>>

\* Variant: the destination score is added whatever use_attn_dst says.
AttnNode_AlwaysDst(gr, use_dst, inputs, inputs_dst) ==
    [i \in DOMAIN gr.edges |->
        Linear(Weights.attn_fc_src, inputs)[SrcOf(gr, i)]
        + Linear(Weights.attn_fc_dst, inputs_dst)[DstOf(gr, i)]]

\* lines 123-135: fn.u_add_v('attn_src', 'attn_dst', 'attn_node') when
\* self._attn_fc_dst is not None, fn.copy_u('attn_src', 'attn_node') otherwise
AttnNode(gr, use_dst, inputs, inputs_dst) ==
    [i \in DOMAIN gr.edges |->
        IF use_dst
        THEN Linear(Weights.attn_fc_src, inputs)[SrcOf(gr, i)]
             + Linear(Weights.attn_fc_dst, inputs_dst)[DstOf(gr, i)]
        ELSE Linear(Weights.attn_fc_src, inputs)[SrcOf(gr, i)]]

\* lines 137-146 with edge_inputs None: e = self._leaky_relu(g.edata['attn_node'])
EdgeLogits(gr, use_dst, inputs, inputs_dst) ==
    [i \in DOMAIN gr.edges |-> LeakyRelu(AttnNode(gr, use_dst, inputs, inputs_dst)[i])]

\* lines 123-146: the attention inputs are stored on the graph, the logits
\* are computed per edge.
FwdAttention ==
    /\ UNCHANGED <<drvVars, trVars, sigVars, convVars, gatVars, eqVars, extVars>>
    /\ lyr_pc = "attention"
    /\ LET use_dst == gatconv.attn_fc_dst # "None"
           f1 == SrcUpdate(frames, graph, "feat_fc_src", feat_fc_src)
           f2 == SrcUpdate(f1, graph, "attn_src",
                           Linear(Weights.attn_fc_src, node_inputs))
           f3 == IF use_dst
                 THEN DstUpdate(f2, graph, "attn_dst",
                                Linear(Weights.attn_fc_dst, node_inputs_dst))
                 ELSE f2
       IN  /\ frames' = EdgeUpdate(f3, "attn_node",
                            AttnNode(graph, use_dst, node_inputs, node_inputs_dst))
           /\ edge_e' = EdgeLogits(graph, use_dst, node_inputs, node_inputs_dst)
    /\ lyr_pc' = "softmax"
    /\ UNCHANGED <<conv_args, gatconv, lyr_error, graph, node_inputs,
                   module_training, node_inputs_dst, feat_fc_src, feat_fc_dst,
                   eids, out_x, returned, pass_kind, passes_left, pass_log>>



RatInverse(p) == Rat(p[2], p[1])

\* Variant: every weight is normalised over all the kept edges of the graph.
EdgeSoftmax_Global(gr, e, kept) ==
    [i \in kept |->
        RatMul(Exp(e[i]),
               RatInverse(RatSum([j \in kept |-> Exp(e[j])], kept)))]

\* dgl.ops.edge_softmax(g, e[eids], eids=eids): over the edges in kept, each
\* weight is normalised over the kept edges with the same destination.
EdgeSoftmax(gr, e, kept) ==
    [i \in kept |->
        RatMul(Exp(e[i]),
               RatInverse(RatSum([j \in kept |-> Exp(e[j])],
                                 {j \in kept : DstOf(gr, j) = DstOf(gr, i)})))]

\* Variant: the number of dropped edges is rounded to the nearest integer.
DropBound_Nearest(num_edges, rate) == (num_edges * rate + 50) \div 100

\* int(g.num_edges() * self._edge_dropout), the rate in percent
DropBound(num_edges, rate) == (num_edges * rate) \div 100

\* perm[bound:] of a random permutation: any set of num_edges - bound edges
KeptChoices(num_edges, rate) ==
    {S \in SUBSET (1..num_edges) : Cardinality(S) = num_edges - DropBound(num_edges, rate)}

\* nn.Dropout(rate) in training mode: the elements in zeroed become 0, the
\* others are scaled by 1 / (1 - rate)
Dropout(t, zeroed, rate) ==
    [i \in DOMAIN t |-> IF i \in zeroed THEN RatZero
                        ELSE RatMul(t[i], Rat(100, 100 - rate))]

\* Variant: the dropout branch is taken whatever self.training is.
EdgeDropoutActive_AnyMode(is_training, rate) == rate > 0

\* `self.training and self._edge_dropout > 0`
EdgeDropoutActive(is_training, rate) == is_training /\ rate > 0

\* self._attn_dropout(t): nn.Dropout acts in training mode only
AttnDropoutChoices(is_training, rate, t) ==
    IF is_training /\ rate > 0
    THEN {Dropout(t, zeroed, rate) : zeroed \in SUBSET (DOMAIN t)}
    ELSE {t}

\* lines 148-157: g.edata['attn']
FwdEdgeSoftmax ==
    /\ UNCHANGED <<drvVars, trVars, sigVars, convVars, gatVars, eqVars, extVars>>
    /\ lyr_pc = "softmax"
    /\ IF EdgeDropoutActive(module_training, gatconv.edge_dropout)
       THEN \E kept \in KeptChoices(NumEdges(graph), gatconv.edge_dropout) :
              \E a \in AttnDropoutChoices(module_training, gatconv.attn_dropout,
                                          EdgeSoftmax(graph, edge_e, kept)) :
                /\ eids' = kept
                /\ frames' = EdgeUpdate(frames, "attn",
                                [i \in DOMAIN graph.edges |->
                                    IF i \in kept THEN a[i] ELSE RatZero])
       ELSE \E a \in AttnDropoutChoices(module_training, gatconv.attn_dropout,
                                        EdgeSoftmax(graph, edge_e, DOMAIN graph.edges)) :
                /\ eids' = DOMAIN graph.edges
                /\ frames' = EdgeUpdate(frames, "attn",
                                [i \in DOMAIN graph.edges |-> a[i]])
    /\ lyr_pc' = "aggregate"
    /\ UNCHANGED <<conv_args, gatconv, lyr_error, graph, node_inputs,
                   module_training, node_inputs_dst, feat_fc_src, feat_fc_dst,
                   edge_e, out_x, returned, pass_kind, passes_left, pass_log>>

RECURSIVE RealSum(_, _)
RealSum(f, S) ==
    IF S = {} THEN RealZero
    ELSE LET i == CHOOSE i \in S : TRUE IN RealAdd(f[i], RealSum(f, S \ {i}))

\* Variant: the message carries the features of the edge's destination node.
Aggregate_FromDst(gr, src_feat, attn) ==
    [v \in 1..gr.num_dst_nodes |->
        RealSum([i \in DOMAIN gr.edges |-> RealScale(src_feat[DstOf(gr, i)], attn[i])],
                InEdges(gr, v))]

\* g.update_all(fn.u_mul_e('feat_fc_src', 'attn', 'msg'), fn.sum('msg', 'feat_fc_src'))
Aggregate(gr, src_feat, attn) ==
    [v \in 1..gr.num_dst_nodes |->
        RealSum([i \in DOMAIN gr.edges |-> RealScale(src_feat[SrcOf(gr, i)], attn[i])],
                InEdges(gr, v))]

\* lines 159-161
FwdAggregate ==
    /\ UNCHANGED <<drvVars, trVars, sigVars, convVars, gatVars, eqVars, extVars>>
    /\ lyr_pc = "aggregate"
    /\ out_x' = Aggregate(graph, frames.src["feat_fc_src"], frames.edge["attn"])
    /\ frames' = DstUpdate(frames, graph, "feat_fc_src", out_x')
    /\ lyr_pc' = "norm_dst"
    /\ UNCHANGED <<conv_args, gatconv, lyr_error, graph, node_inputs,
                   module_training, node_inputs_dst, feat_fc_src, feat_fc_dst,
                   edge_e, eids, returned, pass_kind, passes_left, pass_log>>

\* lines 163-174; `x` is the tensor stored in g.dstdata, scaled in place
FwdNormDst ==
    /\ UNCHANGED <<drvVars, trVars, sigVars, convVars, gatVars, eqVars, extVars>>
    /\ lyr_pc = "norm_dst"
    /\ out_x' = NormDst(gatconv.norm, graph, out_x)
    /\ frames' = DstUpdate(frames, graph, "feat_fc_src", out_x')
    /\ lyr_pc' = "residual"
    /\ UNCHANGED <<conv_args, gatconv, lyr_error, graph, node_inputs,
                   module_training, node_inputs_dst, feat_fc_src, feat_fc_dst,
                   edge_e, eids, returned, pass_kind, passes_left, pass_log>>

\* lines 176-179: x += feat_fc_dst, or x += self.bias (zeros after
\* reset_parameters) when there is no residual projection
AddResidual(conv, t, dst_proj) ==
    IF conv.fc_dst # "None"
    THEN [v \in DOMAIN t |-> RealAdd(t[v], dst_proj[v])]
    ELSE [v \in DOMAIN t |-> RealAdd(t[v], RealZero)]

\* lines 176-184: the residual is added in place and x is returned; the
\* locals of the call are gone, what was stored on the graph stays.
FwdReturn ==
    /\ UNCHANGED <<drvVars, trVars, sigVars, convVars, gatVars, eqVars, extVars>>
    /\ lyr_pc = "residual"
    /\ LET res == AddResidual(gatconv, out_x, feat_fc_dst)
       IN  /\ frames' = DstUpdate(frames, graph, "feat_fc_src", res)
           /\ returned' =
                [x |-> res,
                 shape |-> <<Len(res)>> \o
                           Tail(ViewShape(Len(node_inputs), gatconv.num_heads,
                                          gatconv.out_feats))]
    /\ pass_log' = Append(pass_log,
                          [kind |-> pass_kind,
                           training |-> module_training,
                           softmaxed |-> eids,
                           weighted |-> {i \in DOMAIN graph.edges :
                                            frames.edge["attn"][i] # RatZero}])
    /\ node_inputs_dst' = NoTensor
    /\ feat_fc_src' = NoTensor
    /\ feat_fc_dst' = NoTensor
    /\ edge_e' = NoTensor
    /\ eids' = {}
    /\ out_x' = NoTensor
    /\ lyr_pc' = "ready"
    /\ UNCHANGED <<conv_args, gatconv, lyr_error, graph, node_inputs,
                   module_training, pass_kind, passes_left>>

NextLayer ==
    \/ GATConvInit
    \/ ModelTrain
    \/ ModelEval
    \/ FwdProject
    \/ FwdNormSrc
    \/ FwdAttention
    \/ FwdEdgeSoftmax
    \/ FwdAggregate
    \/ FwdNormDst
    \/ FwdReturn

\* Layers without dropout, every other argument free; one forward call.
PlainConvArgs == {a \in ConvArgs : a.edge_dropout = 0 /\ a.attn_dropout = 0}

InitLayer ==
    /\ DrvIdle /\ TrIdle /\ SigIdle /\ ConvIdle /\ GatIdle /\ EqIdle /\ ExtIdle
    /\ LyrInitWith(PlainConvArgs, LyrGraphs, InputValues, 1)

SpecLayer == InitLayer /\ [][NextLayer]_vars

\* Layers with every combination of the two dropout rates, the other
\* arguments fixed; one forward call.
DropoutConvArgs ==
    {a \in ConvArgs : a.residual /\ a.norm = "none" /\ a.use_attn_dst
                       /\ a.num_heads = 1}

InitLayerDropout ==
    /\ DrvIdle /\ TrIdle /\ SigIdle /\ ConvIdle /\ GatIdle /\ EqIdle /\ ExtIdle
    /\ LyrInitWith(DropoutConvArgs, LyrGraphs, InputValues, 1)

SpecLayerDropout == InitLayerDropout /\ [][NextLayer]_vars

\* Up to MaxPasses forward calls, each in a training or an evaluation pass,
\* on the same module and graph, for every edge-dropout rate.
MaxPasses == 2

PassesConvArgs == {a \in DropoutConvArgs : a.attn_dropout = 0}

InitLayerPasses ==
    /\ DrvIdle /\ TrIdle /\ SigIdle /\ ConvIdle /\ GatIdle /\ EqIdle /\ ExtIdle
    /\ LyrInitWith(PassesConvArgs, LyrGraphs, {1}, MaxPasses)

SpecLayerPasses == InitLayerPasses /\ [][NextLayer]_vars



(***************************************************************************)
(* Properties of GATConv (specifications SpecLayer, SpecLayerDropout,      *)
(* SpecLayerPasses).                                                       *)
(***************************************************************************)
\* The aggregated and destination-normalised result of the last forward,
\* recomputed from the inputs and the attention weights left on the graph.
NormalisedAggregate ==
    NormDst(conv_args.norm, graph,
            Aggregate(graph,
                      NormSrc(conv_args.norm, graph,
                              RealLinear(Weights.fc_src, node_inputs)),
                      frames.edge["attn"]))

\* C11 as stated: a layer with residual = False is constructed and its forward
\* completes, returning the aggregated result plus the bias; a layer with
\* residual = True returns the aggregated result plus the projection of the
\* destination features, without a bias.
C11_ResidualOrBias ==
    /\ ~conv_args.residual => lyr_error = "none" /\ lyr_pc # "raised"
    /\ returned # NoReturn =>
          \A v \in DOMAIN returned.x :
             returned.x[v] =
                RealAdd(NormalisedAggregate[v],
                        IF conv_args.residual
                        THEN RealOfInt(Weights.fc_dst * node_inputs[v])
                        ELSE RealZero)



\* The attention weights of the running forward call have been stored.
AttnStored == lyr_pc \in {"aggregate", "norm_dst", "residual"}

\* The running forward call took the edge-dropout branch.
InEdgeDropoutPass == AttnStored /\ module_training /\ conv_args.edge_dropout > 0

\* Sum of exp(e) over the edges of S that share the destination of edge i.
ExpSumAt(i, S) ==
    RatSum([j \in DOMAIN graph.edges |-> Exp(edge_e[j])],
           {j \in S : graph.edges[j][2] = graph.edges[i][2]})

C13_EdgeDropoutOnlyInTraining ==
    /\ \A k \in DOMAIN pass_log :
          IF pass_log[k].kind = "train"
          THEN /\ pass_log[k].training
               /\ Len(graph.edges) * conv_args.edge_dropout >= 100 =>
                     pass_log[k].softmaxed # DOMAIN graph.edges
          ELSE /\ pass_log[k].kind \in {"valid", "test"}
               /\ ~pass_log[k].training
               /\ pass_log[k].softmaxed = DOMAIN graph.edges
               /\ pass_log[k].weighted = DOMAIN graph.edges
    /\ lyr_pc \notin {"init", "ready", "raised"} =>
          module_training = (pass_kind = "train")

\* A training pass that dropped one of two edges, followed by a test pass on
\* the same module that weighted both.
C13_Witness ==
    /\ Len(pass_log) = 2
    /\ conv_args.edge_dropout = 50
    /\ pass_log[1].kind = "train"
    /\ Cardinality(pass_log[1].softmaxed) = 1
    /\ pass_log[2].kind = "test"
    /\ pass_log[2].weighted = {1, 2}



(***************************************************************************)
(* GAT.forward of models/gat_with_projection.py with one layer, in         *)
(* evaluation mode (every nn.Dropout is the identity), without batch       *)
(* normalisation and without an edge encoder, applied to a graph and to a  *)
(* list holding one block sampled from that graph.  The block keeps the    *)
(* node ids of the graph: its destination nodes are the graph's nodes      *)
(* 1..num_dst_nodes, its source nodes are 1..num_src_nodes.                *)
(***************************************************************************)
Activations == {"None", "relu", "leaky_relu"}

\* g.srcdata['feat'], one value per node
FeatValues == {0 - 100, 1}

\* Parameters of self._node_encoder and self._fc_prediction (weight, bias).
GATWeights == [node_encoder |-> <<1, 0>>, fc_prediction |-> <<2, 1>>]

\* F.leaky_relu's default negative_slope = 0.01
DefaultNegativeSlope == <<1, 100>>

\* F.relu / F.leaky_relu on an integer; the negative values of this model are
\* multiples of the slope's denominator.
ActivationInt(act, v) ==
    IF v >= 0 THEN v
    ELSE IF act = "relu" THEN 0
    ELSE (v * DefaultNegativeSlope[1]) \div DefaultNegativeSlope[2]

\* F.relu / F.leaky_relu on a tensor element
ActivationReal(act, a) ==
    IF ~RealNegative(a) THEN a
    ELSE IF act = "relu" THEN RealZero
    ELSE RealScale(a, Rat(DefaultNegativeSlope[1], DefaultNegativeSlope[2]))

AffineInt(wb, t) == [i \in DOMAIN t |-> wb[1] * t[i] + wb[2]]
AffineReal(wb, t) ==
    [i \in DOMAIN t |-> RealAdd(RealScale(t[i], RatOfInt(wb[1])), RealOfInt(wb[2]))]

\* GATConv.forward in evaluation mode as one function: the statements of
\* FwdProject .. FwdReturn composed, for a layer built with residual = True.
ConvForwardEval(gr, norm, use_dst, inputs) ==
    LET inputs_dst == DstRows(gr, inputs)
        src == NormSrc(norm, gr, RealLinear(Weights.fc_src, inputs))
        attn == EdgeSoftmax(gr, EdgeLogits(gr, use_dst, inputs, inputs_dst),
                            DOMAIN gr.edges)
        agg == NormDst(norm, gr, Aggregate(gr, src, attn))
    IN  AddResidual([fc_dst |-> "Linear"], agg, RealLinear(Weights.fc_dst, inputs_dst))

\* lines 297-298: x = F.relu(self._node_encoder(g.srcdata['feat']))
EncoderActivationOnGraph(act, v) == ActivationInt("relu", v)

\* lines 265-270: self._activation when it is not None, F.relu otherwise
EncoderActivationOnBlocks(act, v) ==
    IF act # "None" THEN ActivationInt(act, v) ELSE ActivationInt("relu", v)

\* lines 311-319 and 287-295: the layer, then self._activation if not None
LayerAndActivation(gr, norm, act, t) ==
    LET y == ConvForwardEval(gr, norm, TRUE, t)
    IN  [v \in DOMAIN y |-> IF act # "None" THEN ActivationReal(act, y[v]) ELSE y[v]]

\* GAT.forward(g) for a graph, lines 297-321
GATForwardGraph(gr, norm, act, feat) ==
    LET enc == AffineInt(GATWeights.node_encoder, feat)
        t == [i \in DOMAIN enc |-> EncoderActivationOnGraph(act, enc[i])]
    IN  AffineReal(GATWeights.fc_prediction, LayerAndActivation(gr, norm, act, t))

\* GAT.forward([block]) for a list of one block, lines 265-295 and 321
GATForwardBlocks(block, norm, act, feat) ==
    LET enc == AffineInt(GATWeights.node_encoder, feat)
        t == [i \in DOMAIN enc |-> EncoderActivationOnBlocks(act, enc[i])]
    IN  AffineReal(GATWeights.fc_prediction, LayerAndActivation(block, norm, act, t))



RECURSIVE Pick(_, _, _)
\* The elements of seq at the indices in S from i on, in order.
Pick(seq, S, i) ==
    IF i > Len(seq) THEN <<>>
    ELSE (IF i \in S THEN <<seq[i]>> ELSE <<>>) \o Pick(seq, S, i + 1)

\* The blocks a neighbour sampler can build from gr: the seeds are the nodes
\* 1..k, `sampled` is a subset of their incoming edges (kept in edge-id order,
\* the ids recorded as dgl.EID), and the source nodes are the seeds followed by
\* the sources of the sampled edges.
BlocksOf(gr) ==
    UNION {{[is_block |-> TRUE,
             num_src_nodes |-> m,
             num_dst_nodes |-> k,
             edges |-> Pick(gr.edges, S, 1),
             sampled |-> S] :
              m \in {n \in k..gr.num_src_nodes :
                        1..n = (1..k) \cup {gr.edges[i][1] : i \in S}}} :
           k \in 1..gr.num_dst_nodes, S \in SUBSET (DOMAIN gr.edges)}

EqInit ==
    /\ eq_graph \in FullGraphs
    /\ eq_block \in {b \in BlocksOf(eq_graph) :
                        \A i \in b.sampled : eq_graph.edges[i][2] <= b.num_dst_nodes}
    /\ eq_feat \in [1..eq_graph.num_src_nodes -> FeatValues]
    /\ eq_norm \in Norms
    /\ eq_activation \in Activations
    /\ eq_pc = "start"
    /\ eq_logits_full = <<>>
    /\ eq_logits_block = <<>>

\* model(g) on the graph
EqForwardGraph ==
    /\ UNCHANGED <<drvVars, trVars, sigVars, convVars, lyrVars, gatVars, extVars>>
    /\ eq_pc = "start"
    /\ eq_logits_full' = GATForwardGraph(eq_graph, eq_norm, eq_activation, eq_feat)
    /\ eq_pc' = "graph_done"
    /\ UNCHANGED <<eq_graph, eq_block, eq_feat, eq_norm, eq_activation,
                   eq_logits_block>>

\* model([block]); the block's srcdata['feat'] are the features of its source nodes
EqForwardBlocks ==
    /\ UNCHANGED <<drvVars, trVars, sigVars, convVars, lyrVars, gatVars, extVars>>
    /\ eq_pc = "graph_done"
    /\ eq_logits_block' = GATForwardBlocks(eq_block, eq_norm, eq_activation,
                                           SubSeq(eq_feat, 1, eq_block.num_src_nodes))
    /\ eq_pc' = "done"
    /\ UNCHANGED <<eq_graph, eq_block, eq_feat, eq_norm, eq_activation,
                   eq_logits_full>>

InitEquiv ==
    /\ DrvIdle /\ TrIdle /\ SigIdle /\ ConvIdle /\ LyrIdle /\ GatIdle /\ ExtIdle
    /\ EqInit

NextEquiv ==
    \/ EqForwardGraph
    \/ EqForwardBlocks

SpecEquiv == InitEquiv /\ [][NextEquiv]_vars

(***************************************************************************)
(* Properties of the one-layer forward (specification SpecEquiv).          *)
(***************************************************************************)
\* Every edge of the graph into node v was sampled into the block.
WholeNeighbourhoodSampled(v) ==
    \A i \in DOMAIN eq_graph.edges : eq_graph.edges[i][2] = v => i \in eq_block.sampled

\* C14 as stated: in evaluation mode and with the same parameters, the
\* one-layer forward on the graph and on a block sampled from it give the same
\* output for every destination node of the block whose whole incoming
\* neighbourhood is in the block, for every norm mode and every activation.
C14_GraphAndBlockAgree ==
    eq_pc = "done" =>
        \A v \in 1..eq_block.num_dst_nodes :
            WholeNeighbourhoodSampled(v) => eq_logits_full[v] = eq_logits_block[v]



(***************************************************************************)
(* Further properties of GATConv.forward (specification SpecLayer).        *)
(***************************************************************************)
\* The logits of the running forward call have been computed.
LogitsComputed == lyr_pc \in {"softmax", "aggregate", "norm_dst", "residual"}

C16_NothingLeftOnGraph ==
    (lyr_pc = "ready" /\ returned # NoReturn) => frames = NoFrames



\* Row v of t, for the destination nodes: the first num_dst_nodes rows.
FirstDstRows(t) == [v \in 1..graph.num_dst_nodes |-> t[v]]

\* C17: the destination-side rows forward uses, for the residual projection
\* and for the destination attention score, are the first num_dst_nodes rows of
\* node_inputs (in a graph that is not a block these are all rows), and the
\* returned tensor has shape (num_dst_nodes, num_heads, out_feats).
C17_DestinationRowsArePrefix ==
    /\ lyr_pc \in {"norm_src", "attention", "softmax", "aggregate", "norm_dst", "residual"} =>
          /\ node_inputs_dst = FirstDstRows(node_inputs)
          /\ ~graph.is_block => node_inputs_dst = node_inputs
          /\ feat_fc_dst = [v \in 1..graph.num_dst_nodes |->
                               RealOfInt(Weights.fc_dst * node_inputs[v])]
    /\ (LogitsComputed /\ conv_args.use_attn_dst) =>
          frames.dst["attn_dst"] = [v \in 1..graph.num_dst_nodes |->
                                       Weights.attn_fc_dst * node_inputs[v]]
    /\ returned # NoReturn =>
          /\ Len(returned.x) = graph.num_dst_nodes
          /\ returned.shape = <<graph.num_dst_nodes, conv_args.num_heads,
                                conv_args.out_feats>>

\* forward returned on a block with two source nodes of different rows and one
\* destination node, for a layer with two heads of three features.
C17_Witness ==
    /\ returned # NoReturn
    /\ graph.is_block
    /\ graph.num_src_nodes = 2
    /\ graph.num_dst_nodes = 1
    /\ node_inputs[1] # node_inputs[2]
    /\ conv_args.use_attn_dst
    /\ returned.shape = <<1, 2, 3>>



(***************************************************************************)
(* GAT.forward of models/gat_with_projection.py on a list of blocks, lines *)
(* 264-295 and 321.  A tensor is its number of rows and the step that      *)
(* produced it; a block is its two node counts.  The blocks of a batch     *)
(* come from the neighbour sampler: the source nodes of block i+1 are the  *)
(* destination nodes of block i.                                           *)
(***************************************************************************)
MaxLayers == 3
MaxBlockNodes == 3

\* The lists obtained by sampling one more block below the list ch.
ChainExtensions(ch) ==
    LET srcs == IF ch = <<>> THEN 1..MaxBlockNodes ELSE {ch[Len(ch)].num_dst_nodes}
    IN  {Append(ch, [num_src_nodes |-> q[1], num_dst_nodes |-> q[2]]) :
            q \in {r \in srcs \X (1..MaxBlockNodes) : r[2] <= r[1]}}

RECURSIVE BlockChains(_)
\* The lists of n blocks a sampler can yield.
BlockChains(n) ==
    IF n = 0 THEN {<<>>} ELSE UNION {ChainExtensions(ch) : ch \in BlockChains(n - 1)}

GatInit ==
    /\ gat_num_layers \in 1..MaxLayers
    /\ gat_blocks \in UNION {BlockChains(n) : n \in 1..MaxLayers}
    /\ gat_pc = "encode"
    /\ gat_i = 0
    /\ gat_x = [rows |-> 0, from |-> <<"none", 0>>]
    /\ gat_log = <<>>

\* lines 265-272: x = self._node_encoder(g[0].srcdata['feat']), activation,
\* input dropout: one row per source node of the first block
GATEncode ==
    /\ UNCHANGED <<drvVars, trVars, sigVars, convVars, lyrVars, eqVars, extVars>>
    /\ gat_pc = "encode"
    /\ gat_x' = [rows |-> gat_blocks[1].num_src_nodes, from |-> <<"encoder", 0>>]
    /\ gat_i' = 0
    /\ gat_pc' = "loop"
    /\ UNCHANGED <<gat_num_layers, gat_blocks, gat_log>>

\* Variant: every layer is given the first block.
BlockOfLayer_First(i) == 1

\* g[i]: position in gat_blocks of the block handed to self._convs[i]
BlockOfLayer(i) == i + 1

\* Variant: the loop runs over the blocks of the list.
LoopBound_AllBlocks(num_layers, blocks) == Len(blocks)

\* line 274: `for i in range(self._num_layers)`
LoopBound(num_layers, blocks) == num_layers

\* lines 274-295, one iteration: x = self._convs[i](g[i], x, None).flatten(1, -1),
\* batch norm, activation, dropout.  g[i] fails past the end of the list; the
\* layer stores x on the block's source nodes (g.srcdata.update), which DGL
\* rejects unless x has one row per source node, and returns one row per
\* destination node.
GATLayer ==
    /\ UNCHANGED <<drvVars, trVars, sigVars, convVars, lyrVars, eqVars, extVars>>
    /\ gat_pc = "loop"
    /\ gat_i < LoopBound(gat_num_layers, gat_blocks)
    /\ IF BlockOfLayer(gat_i) > Len(gat_blocks)
       THEN /\ gat_pc' = "IndexError"
            /\ UNCHANGED <<gat_i, gat_x, gat_log>>
       ELSE IF gat_x.rows # gat_blocks[BlockOfLayer(gat_i)].num_src_nodes
       THEN /\ gat_pc' = "DGLError"
            /\ UNCHANGED <<gat_i, gat_x, gat_log>>
       ELSE /\ gat_log' = Append(gat_log,
                                 [layer |-> gat_i,
                                  block |-> BlockOfLayer(gat_i) - 1,
                                  input_rows |-> gat_x.rows,
                                  input_from |-> gat_x.from])
            /\ gat_x' = [rows |-> gat_blocks[BlockOfLayer(gat_i)].num_dst_nodes,
                         from |-> <<"layer", gat_i>>]
            /\ gat_i' = gat_i + 1
            /\ gat_pc' = gat_pc
    /\ UNCHANGED <<gat_num_layers, gat_blocks>>

\* line 321 after the loop: x = self._fc_prediction(x); return x
GATPredict ==
    /\ UNCHANGED <<drvVars, trVars, sigVars, convVars, lyrVars, eqVars, extVars>>
    /\ gat_pc = "loop"
    /\ gat_i >= LoopBound(gat_num_layers, gat_blocks)
    /\ gat_x' = [rows |-> gat_x.rows, from |-> <<"fc_prediction", 0>>]
    /\ gat_pc' = "returned"
    /\ UNCHANGED <<gat_num_layers, gat_blocks, gat_i, gat_log>>

InitGAT ==
    /\ DrvIdle /\ TrIdle /\ SigIdle /\ ConvIdle /\ LyrIdle /\ EqIdle /\ ExtIdle
    /\ GatInit

NextGAT ==
    \/ GATEncode
    \/ GATLayer
    \/ GATPredict

SpecGAT == InitGAT /\ [][NextGAT]_vars

(***************************************************************************)
(* Properties of GAT.forward on blocks (specification SpecGAT).            *)
(***************************************************************************)
\* C18: with as many blocks as layers, no step fails; the k-th applied layer
\* is layer k-1, is given block k-1 and the output of the step before it (the
\* encoder for layer 0, layer k-2 otherwise), and that input has one row per
\* source node of its block; the returned logits have one row per destination
\* node of the last block.
C18_LayerIConsumesBlockI ==
    Len(gat_blocks) = gat_num_layers =>
        /\ gat_pc \in {"encode", "loop", "returned"}
        /\ \A k \in DOMAIN gat_log :
              /\ gat_log[k].layer = k - 1
              /\ gat_log[k].block = k - 1
              /\ gat_log[k].input_rows = gat_blocks[k].num_src_nodes
              /\ gat_log[k].input_from = IF k = 1 THEN <<"encoder", 0>> ELSE <<"layer", k - 2>>
        /\ gat_pc = "returned" =>
              /\ Len(gat_log) = gat_num_layers
              /\ gat_x.rows = gat_blocks[gat_num_layers].num_dst_nodes

\* A forward over three blocks of shrinking node counts has returned.
C18_Witness ==
    /\ gat_pc = "returned"
    /\ gat_num_layers = 3
    /\ Len(gat_blocks) = 3
    /\ gat_blocks[1].num_src_nodes > gat_blocks[1].num_dst_nodes
    /\ gat_blocks[2].num_src_nodes > gat_blocks[2].num_dst_nodes
    /\ gat_blocks[3].num_dst_nodes = 1



\* Degrees counted from the edge list, with the floor of 1.
OutDegreeFloored(u) ==
    LET d == Cardinality({i \in DOMAIN graph.edges : graph.edges[i][1] = u})
    IN  IF d = 0 THEN 1 ELSE d
InDegreeFloored(v) ==
    LET d == Cardinality({i \in DOMAIN graph.edges : graph.edges[i][2] = v})
    IN  IF d = 0 THEN 1 ELSE d

\* Every coefficient of every row of t has a positive denominator.
Finite(t) == \A i \in DOMAIN t : \A r \in Rads : t[i][r][2] > 0

\* C19: the source projection is scaled by 1/max(out_deg, 1) for 'left', by
\* max(out_deg, 1)^-0.5 for 'both' and not at all for 'none' and 'right'; the
\* aggregated result is scaled by 1/max(in_deg, 1) for 'right', by
\* max(in_deg, 1)^-0.5 for 'both' and not at all for 'none' and 'left';
\* applying deg^-0.5 twice is dividing by deg; and no value is the result of
\* a division by zero.
C19_DegreeNormalisation ==
    /\ lyr_pc \in {"attention", "softmax", "aggregate", "norm_dst", "residual"} =>
          /\ Finite(feat_fc_src)
          /\ \A u \in 1..graph.num_src_nodes :
                LET proj == RealOfInt(Weights.fc_src * node_inputs[u])
                IN  /\ feat_fc_src[u] =
                          CASE conv_args.norm = "left" ->
                                  RealScale(proj, Rat(1, OutDegreeFloored(u)))
                            [] conv_args.norm = "both" ->
                                  RealDivSqrt(proj, OutDegreeFloored(u))
                            [] OTHER -> proj
                    /\ RealDivSqrt(RealDivSqrt(proj, OutDegreeFloored(u)),
                                   OutDegreeFloored(u))
                          = RealScale(proj, Rat(1, OutDegreeFloored(u)))
    /\ lyr_pc = "residual" =>
          /\ Finite(out_x)
          /\ \A v \in 1..graph.num_dst_nodes :
                LET agg == Aggregate(graph, feat_fc_src, frames.edge["attn"])[v]
                IN  out_x[v] =
                       CASE conv_args.norm = "right" ->
                               RealScale(agg, Rat(1, InDegreeFloored(v)))
                         [] conv_args.norm = "both" ->
                               RealDivSqrt(agg, InDegreeFloored(v))
                         [] OTHER -> agg

\* Both scalings have been applied with norm = 'both' on a graph with a node of
\* out-degree 2, a node without out-edges and a node without in-edges.
C19_Witness ==
    /\ lyr_pc = "residual"
    /\ conv_args.norm = "both"
    /\ \E u \in 1..graph.num_src_nodes :
          Cardinality({i \in DOMAIN graph.edges : graph.edges[i][1] = u}) = 2
    /\ \E u \in 1..graph.num_src_nodes :
          \A i \in DOMAIN graph.edges : graph.edges[i][1] # u
    /\ \E v \in 1..graph.num_dst_nodes :
          \A i \in DOMAIN graph.edges : graph.edges[i][2] # v
    /\ \E v \in 1..graph.num_dst_nodes : out_x[v] # RealZero



\* Every destination node of the graph has an incoming edge.
AllInDegreesPositive ==
    \A v \in 1..graph.num_dst_nodes :
        \E i \in DOMAIN graph.edges : graph.edges[i][2] = v

\* Sum of the stored attention weights over the incoming edges of v.
AttnSumInto(v) ==
    RatSum(frames.edge["attn"],
           {i \in DOMAIN graph.edges : graph.edges[i][2] = v})

\* C20 as stated: with all in-degrees at least 1 and edge dropout disabled,
\* the attention weights stored on the incoming edges of every destination
\* node sum to 1, in training and in evaluation mode, for every
\* attention-dropout rate.
C20_WeightsSumToOne ==
    (AttnStored /\ AllInDegreesPositive /\ conv_args.edge_dropout = 0) =>
        \A v \in 1..graph.num_dst_nodes : AttnSumInto(v) = RatOne

\* C20 amended: with all in-degrees at least 1 and edge dropout disabled, the
\* stored weights of the incoming edges of every destination node sum to 1 in
\* evaluation mode and in training mode with attention-dropout rate 0; in
\* training mode with attention-dropout rate p > 0 every stored weight is
\* either 0 or the softmax weight divided by 1 - p.
C20_WeightsSumToOneWithoutAttnDropout ==
    (AttnStored /\ AllInDegreesPositive /\ conv_args.edge_dropout = 0) =>
        IF module_training /\ conv_args.attn_dropout > 0
        THEN \A i \in DOMAIN graph.edges :
                \/ frames.edge["attn"][i] = RatZero
                \/ RatMul(RatMul(frames.edge["attn"][i],
                                 Rat(100 - conv_args.attn_dropout, 100)),
                          ExpSumAt(i, DOMAIN graph.edges)) = Exp(edge_e[i])
        ELSE \A v \in 1..graph.num_dst_nodes : AttnSumInto(v) = RatOne

\* A training forward with attention-dropout rate 0.5 and no edge dropout has
\* stored the weights of two edges into the same node: dropout zeroed the
\* first and doubled the second, so that their sum is not 1.
C20_Witness ==
    /\ AttnStored
    /\ module_training
    /\ conv_args.edge_dropout = 0
    /\ conv_args.attn_dropout = 50
    /\ AllInDegreesPositive
    /\ Len(graph.edges) = 2
    /\ graph.edges[1][2] = graph.edges[2][2]
    /\ frames.edge["attn"][1] = RatZero
    /\ frames.edge["attn"][2] # RatZero
    /\ AttnSumInto(graph.edges[1][2]) # RatOne


\* The incoming edges of destination node v, from the edge list.
EdgesInto(v) == {i \in DOMAIN graph.edges : graph.edges[i][2] = v}

\* The aggregation has run and the residual has not been added yet.
PreResidual == lyr_pc \in {"norm_dst", "residual"}

\* C21: with norm 'none' and no edge or attention dropout, the single incoming
\* edge of a destination node of in-degree 1 has attention weight 1, and the
\* node's output before the residual is the projection of the features of
\* that edge's source node.
C21_SingleInEdgePassesSource ==
    (PreResidual /\ conv_args.norm = "none" /\ conv_args.edge_dropout = 0
                 /\ conv_args.attn_dropout = 0) =>
        \A v \in 1..graph.num_dst_nodes :
            Cardinality(EdgesInto(v)) = 1 =>
                \A i \in EdgesInto(v) :
                    /\ frames.edge["attn"][i] = RatOne
                    /\ out_x[v] = RealOfInt(Weights.fc_src * node_inputs[graph.edges[i][1]])

\* With norm 'none', node 1 has a single incoming edge, from node 2, whose
\* features differ from its own, and the aggregation has run.
C21_Witness ==
    /\ PreResidual
    /\ conv_args.norm = "none"
    /\ graph.num_dst_nodes = 2
    /\ EdgesInto(1) # {}
    /\ \A i \in EdgesInto(1) : graph.edges[i] = <<2, 1>>
    /\ Cardinality(EdgesInto(1)) = 1
    /\ node_inputs[1] # node_inputs[2]
    /\ out_x[1] = RealOfInt(Weights.fc_src * node_inputs[2])



(***************************************************************************)
(* GAT.__init__ and the feature widths of GAT.forward.  A tensor is its     *)
(* width (size of dimension 1), a Linear or BatchNorm1d module the widths   *)
(* it was declared with.                                                    *)
(***************************************************************************)
HeadCounts == {1, 2}
HiddenWidths == {1, 3}
EdgeWidths == {0, 4}

NetArgs ==
    [node_in_feats : {2}, edge_in_feats : EdgeWidths,
     node_hidden_feats : HiddenWidths, edge_hidden_feats : EdgeWidths,
     out_feats : {5}, num_heads : HeadCounts, num_layers : 1..MaxLayers,
     batch_norm : BOOLEAN, residual : BOOLEAN]

\* The graph, or the blocks of the list: whether g.edata holds 'feat', and
\* its width (None when absent).
NetInputs(args) ==
    {[is_list |-> l, edge_feat |-> w] :
        l \in BOOLEAN, w \in {None, args.edge_in_feats}}

NoNetError == [type |-> "none", at |-> "none"]

NetInit ==
    /\ net_args \in NetArgs
    /\ net_input \in NetInputs(net_args)
    /\ net_model = <<>>
    /\ net_pc = "init"
    /\ net_i = 0
    /\ net_x = 0
    /\ net_error = NoNetError
    /\ net_log = <<>>

\* Variant: every layer is declared with the encoder width.
InHidden_EncoderWidth(i, num_heads, node_hidden_feats) == node_hidden_feats

\* line 232: in_hidden
InHidden(i, num_heads, node_hidden_feats) ==
    IF i > 0 THEN num_heads * node_hidden_feats ELSE node_hidden_feats

\* Variant: the layer is given the width of the raw edge features.
ConvEdgeInFeats_Raw(edge_in_feats, edge_hidden_feats) == edge_in_feats

\* lines 239-241: the second argument of GATConv(...) is edge_hidden_feats
ConvEdgeInFeats(edge_in_feats, edge_hidden_feats) == edge_hidden_feats

\* GATConv.__init__ lines 39-65, the widths of its projections; the edge
\* attention projection is None unless edge_in_feats > 0
NewConv(in_feats, edge_in_feats, out_feats, num_heads) ==
    [fc_src |-> [in_features |-> in_feats, out_features |-> out_feats * num_heads],
     attn_fc_src |-> [in_features |-> in_feats, out_features |-> num_heads],
     attn_fc_edge |-> IF edge_in_feats > 0 THEN edge_in_feats ELSE None,
     num_heads |-> num_heads,
     out_feats |-> out_feats]

\* lines 209-258
NewGAT(a) ==
    [node_encoder |-> [in_features |-> a.node_in_feats,
                       out_features |-> a.node_hidden_feats],
     edge_encoder_is_none |-> ~(a.edge_hidden_feats > 0),
     edge_encoder |->
        IF a.edge_hidden_feats > 0
        THEN [i \in 1..a.num_layers |->
                [in_features |-> a.edge_in_feats, out_features |-> a.edge_hidden_feats]]
        ELSE <<>>,
     convs |->
        [i \in 1..a.num_layers |->
            NewConv(InHidden(i - 1, a.num_heads, a.node_hidden_feats),
                    ConvEdgeInFeats(a.edge_in_feats, a.edge_hidden_feats),
                    a.node_hidden_feats, a.num_heads)],
     batch_norms_is_none |-> ~a.batch_norm,
     batch_norms |->
        IF a.batch_norm
        THEN [i \in 1..a.num_layers |-> a.num_heads * a.node_hidden_feats]
        ELSE <<>>,
     fc_prediction |-> [in_features |-> a.num_heads * a.node_hidden_feats,
                        out_features |-> a.out_feats],
     num_layers |-> a.num_layers]

\* GAT(...): GATConv.__init__ raises when residual is False (line 50)
NetConstruct ==
    /\ UNCHANGED <<drvVars, trVars, sigVars, convVars, lyrVars, gatVars, eqVars,
                   mainVars, slVars>>
    /\ net_pc = "init"
    /\ IF net_args.residual
       THEN /\ net_model' = NewGAT(net_args)
            /\ net_pc' = "built"
            /\ UNCHANGED net_error
       ELSE /\ net_pc' = "raised"
            /\ \E t \in ParameterOfIntErrors :
                  net_error' = [type |-> t, at |-> "bias"]
            /\ UNCHANGED net_model
    /\ UNCHANGED <<net_args, net_input, net_i, net_x, net_log>>

\* lines 265-272 and 297-300: x = self._node_encoder(g.srcdata['feat']); the
\* driver declares the encoder with the width of the node features
NetEncode ==
    /\ UNCHANGED <<drvVars, trVars, sigVars, convVars, lyrVars, gatVars, eqVars,
                   mainVars, slVars>>
    /\ net_pc = "built"
    /\ net_x' = net_model.node_encoder.out_features
    /\ net_i' = 0
    /\ net_pc' = "loop"
    /\ UNCHANGED <<net_args, net_model, net_input, net_error, net_log>>

\* The first module of iteration i that rejects its input, with the error it
\* raises, or NoNetError: g.edata['feat'], the edge encoder, the layer's
\* projections (GATConv.forward lines 105, 123, 139-141), the batch norm.
LayerFailure(model, input, i, x) ==
    LET conv == model.convs[i + 1]
        edge_given == ~model.edge_encoder_is_none
    IN  IF edge_given /\ input.edge_feat = None
        THEN [type |-> "KeyError", at |-> "edata"]
        ELSE IF edge_given /\ input.edge_feat # model.edge_encoder[i + 1].in_features
        THEN [type |-> "RuntimeError", at |-> "edge_encoder"]
        ELSE IF x # conv.fc_src.in_features
        THEN [type |-> "RuntimeError", at |-> "fc_src"]
        ELSE IF edge_given /\ conv.attn_fc_edge = None
        THEN [type |-> "TypeError", at |-> "attn_fc_edge"]
        ELSE IF edge_given /\ model.edge_encoder[i + 1].out_features # conv.attn_fc_edge
        THEN [type |-> "RuntimeError", at |-> "attn_fc_edge"]
        ELSE IF ~model.batch_norms_is_none
                /\ model.batch_norms[i + 1] # conv.num_heads * conv.out_feats
        THEN [type |-> "RuntimeError", at |-> "batch_norms"]
        ELSE NoNetError

\* lines 274-295 and 302-319, one iteration
NetLayer ==
    /\ UNCHANGED <<drvVars, trVars, sigVars, convVars, lyrVars, gatVars, eqVars,
                   mainVars, slVars>>
    /\ net_pc = "loop"
    /\ net_i < net_model.num_layers
    /\ LET failure == LayerFailure(net_model, net_input, net_i, net_x)
           conv == net_model.convs[net_i + 1]
       IN  IF failure # NoNetError
           THEN /\ net_error' = failure
                /\ net_pc' = "raised"
                /\ UNCHANGED <<net_i, net_x, net_log>>
           ELSE /\ net_log' = Append(net_log,
                        [layer |-> net_i,
                         input_width |-> net_x,
                         edge_input |-> ~net_model.edge_encoder_is_none,
                         edge_term |-> ~net_model.edge_encoder_is_none,
                         output_width |-> conv.num_heads * conv.out_feats])
                /\ net_x' = conv.num_heads * conv.out_feats
                /\ net_i' = net_i + 1
                /\ net_pc' = net_pc
                /\ UNCHANGED net_error
    /\ UNCHANGED <<net_args, net_model, net_input>>

\* line 321: x = self._fc_prediction(x)
NetPredict ==
    /\ UNCHANGED <<drvVars, trVars, sigVars, convVars, lyrVars, gatVars, eqVars,
                   mainVars, slVars>>
    /\ net_pc = "loop"
    /\ net_i >= net_model.num_layers
    /\ IF net_x # net_model.fc_prediction.in_features
       THEN /\ net_error' = [type |-> "RuntimeError", at |-> "fc_prediction"]
            /\ net_pc' = "raised"
            /\ UNCHANGED net_x
       ELSE /\ net_x' = net_model.fc_prediction.out_features
            /\ net_pc' = "returned"
            /\ UNCHANGED net_error
    /\ UNCHANGED <<net_args, net_model, net_input, net_i, net_log>>

InitNet ==
    /\ DrvIdle /\ TrIdle /\ SigIdle /\ ConvIdle /\ LyrIdle /\ GatIdle /\ EqIdle
    /\ MainIdle /\ SlIdle
    /\ NetInit

NextNet ==
    \/ NetConstruct
    \/ NetEncode
    \/ NetLayer
    \/ NetPredict

SpecNet == InitNet /\ [][NextNet]_vars

\* C22: in a constructed network, layer 0 is declared with the encoder width
\* and layer i + 1, the batch norm of layer i and, after the last layer, the
\* prediction head are declared with num_heads * hidden, the width layer i
\* produces; so that no module of the forward pass rejects the node features
\* it is given.
C22_HeadsConcatenatedEverywhere ==
    /\ net_pc \in {"built", "loop", "returned"} =>
          /\ net_model.convs[1].fc_src.in_features = net_args.node_hidden_feats
          /\ \A i \in 2..net_args.num_layers :
                net_model.convs[i].fc_src.in_features
                    = net_args.num_heads * net_args.node_hidden_feats
          /\ net_args.batch_norm =>
                \A i \in 1..net_args.num_layers :
                    net_model.batch_norms[i]
                        = net_args.num_heads * net_args.node_hidden_feats
          /\ net_model.fc_prediction.in_features
                = net_args.num_heads * net_args.node_hidden_feats
    /\ \A k \in DOMAIN net_log :
          /\ net_log[k].output_width = net_args.num_heads * net_args.node_hidden_feats
          /\ net_log[k].input_width =
                IF k = 1 THEN net_args.node_hidden_feats
                ELSE net_log[k - 1].output_width
    /\ ~(net_error.type = "RuntimeError"
         /\ net_error.at \in {"fc_src", "batch_norms", "fc_prediction"})

\* A network of three layers, two heads, hidden width 3 and batch norms has
\* returned its prediction.
C22_Witness ==
    /\ net_pc = "returned"
    /\ net_args.num_layers = 3
    /\ net_args.num_heads = 2
    /\ net_args.node_hidden_feats = 3
    /\ net_args.batch_norm
    /\ Len(net_log) = 3
    /\ net_log[3].input_width = 6

\* C23: with edge_hidden_feats = 0 there is no edge encoder, no layer is given
\* an edge input and no logit has an edge term; and a layer is given an edge
\* input only if it owns an edge attention projection, on a graph as well as on
\* a list of blocks.
C23_EdgeInputOnlyWithEdgeProjection ==
    /\ net_pc \in {"built", "loop", "returned"} =>
          /\ net_args.edge_hidden_feats = 0 =>
                /\ net_model.edge_encoder_is_none
                /\ \A k \in DOMAIN net_log :
                      ~net_log[k].edge_input /\ ~net_log[k].edge_term
          /\ \A k \in DOMAIN net_log :
                net_log[k].edge_input => net_model.convs[k].attn_fc_edge # None
    /\ net_error.type # "TypeError" \/ net_error.at # "attn_fc_edge"

\* A network without edge features has run two layers on a list of blocks
\* that carry edge features: no layer was given an edge input.
C23_Witness ==
    /\ net_pc = "returned"
    /\ net_input.is_list
    /\ net_args.edge_hidden_feats = 0
    /\ net_args.edge_in_feats > 0
    /\ net_input.edge_feat # None
    /\ net_args.num_layers = 2
    /\ ~net_log[2].edge_input



(***************************************************************************)
(* Entry points of the scripts.  A SigOpt run context is the record of     *)
(* what was logged on it; run(args, ...) is one step whose outcome is       *)
(* chosen: it returns, raises an instance of Exception, or is interrupted   *)
(* (KeyboardInterrupt, which is not an Exception).                          *)
(***************************************************************************)
MaxRuns == 3

RunOutcomes == {"returned", "Exception", "KeyboardInterrupt"}

NoRun == [open |-> FALSE, raised |-> "none", metadata |-> {}, failed |-> FALSE]

\* Variant: no handler around run().
Catches_Nothing(outcome) == FALSE

\* `except Exception as e`
Catches(outcome) == outcome = "Exception"

\* The state after argparser.parse_args() of `script`, for a command line in
\* argset.
MainInitWith(script, argset) ==
    /\ main_script = script
    /\ main_args \in argset
    /\ main_env \in BOOLEAN
    /\ main_pc = "parsed"
    /\ main_error = "none"
    /\ main_bound = {}
    /\ main_finished \in BOOLEAN
    /\ main_run = NoRun
    /\ main_runs = <<>>
    /\ main_events = <<>>

SageArgs == [download_dataset : BOOLEAN, experiment_id : {None, 7}]

\* graphsage/mini_batch.py lines 311-316, 328: the download, then the choice
\* between the search loop and a single run
SageBranch ==
    /\ UNCHANGED <<drvVars, trVars, sigVars, convVars, lyrVars, gatVars, eqVars,
                   netVars, slVars>>
    /\ main_script = "graphsage/mini_batch.py"
    /\ main_pc = "parsed"
    /\ LET downloaded == IF main_args.download_dataset
                         THEN Append(main_events, "download_dataset")
                         ELSE main_events
       IN  IF main_args.experiment_id # None
           THEN /\ main_events' = Append(downloaded, "get_experiment")
                /\ main_bound' = main_bound \cup {"experiment"}
                /\ main_pc' = "loop_test"
           ELSE /\ main_events' = downloaded
                /\ main_bound' = main_bound
                /\ main_pc' = "plain_run"
    /\ UNCHANGED <<main_script, main_args, main_env, main_error, main_finished,
                   main_run, main_runs>>

\* line 329: run(args) outside any handler
SagePlainRun ==
    /\ UNCHANGED <<drvVars, trVars, sigVars, convVars, lyrVars, gatVars, eqVars,
                   netVars, slVars>>
    /\ main_script = "graphsage/mini_batch.py"
    /\ main_pc = "plain_run"
    /\ \E outcome \in RunOutcomes :
          /\ main_error' = IF outcome = "returned" THEN "none" ELSE outcome
          /\ main_events' = Append(main_events, "run")
    /\ main_pc' = "exited"
    /\ UNCHANGED <<main_script, main_args, main_env, main_bound, main_finished,
                   main_run, main_runs>>

\* lines 318-319: `while not experiment.is_finished()` and the entry of
\* `with experiment.create_run() as sigopt_context`
SageLoopTest ==
    /\ UNCHANGED <<drvVars, trVars, sigVars, convVars, lyrVars, gatVars, eqVars,
                   netVars, slVars>>
    /\ main_script = "graphsage/mini_batch.py"
    /\ main_pc = "loop_test"
    /\ IF main_finished
       THEN /\ main_pc' = "exited"
            /\ UNCHANGED <<main_run, main_events>>
       ELSE /\ main_run' = [NoRun EXCEPT !.open = TRUE]
            /\ main_events' = Append(main_events, "create_run")
            /\ main_pc' = "in_run"
    /\ UNCHANGED <<main_script, main_args, main_env, main_error, main_bound,
                   main_finished, main_runs>>

\* lines 320-326: the try statement
SageTryRun ==
    /\ UNCHANGED <<drvVars, trVars, sigVars, convVars, lyrVars, gatVars, eqVars,
                   netVars, slVars>>
    /\ main_script = "graphsage/mini_batch.py"
    /\ main_pc = "in_run"
    /\ \E outcome \in RunOutcomes :
          IF outcome = "returned"
          THEN /\ main_run' = main_run
               /\ main_events' = Append(main_events, "run")
               /\ UNCHANGED main_error
          ELSE IF Catches(outcome)
          THEN /\ main_run' = [main_run EXCEPT
                                  !.raised = outcome,
                                  !.metadata = @ \cup {"exception"},
                                  !.failed = TRUE]
               /\ main_events' = main_events \o <<"run", "print">>
               /\ UNCHANGED main_error
          ELSE /\ main_run' = [main_run EXCEPT !.raised = outcome]
               /\ main_events' = Append(main_events, "run")
               /\ main_error' = outcome
    /\ main_pc' = "run_exit"
    /\ UNCHANGED <<main_script, main_args, main_env, main_bound, main_finished,
                   main_runs>>

\* The exit of the with statement: the run is closed; an exception on its way
\* out ends the process.  The experiment is finished or not, as the service
\* decides; it is finished once MaxRuns runs were made.
SageRunExit ==
    /\ UNCHANGED <<drvVars, trVars, sigVars, convVars, lyrVars, gatVars, eqVars,
                   netVars, slVars>>
    /\ main_script = "graphsage/mini_batch.py"
    /\ main_pc = "run_exit"
    /\ main_runs' = Append(main_runs, [main_run EXCEPT !.open = FALSE])
    /\ main_run' = NoRun
    /\ main_finished' \in (IF Len(main_runs') >= MaxRuns THEN {TRUE} ELSE BOOLEAN)
    /\ main_pc' = IF main_error = "none" THEN "loop_test" ELSE "exited"
    /\ UNCHANGED <<main_script, main_args, main_env, main_error, main_bound,
                   main_events>>

InitSageMain ==
    /\ DrvIdle /\ TrIdle /\ SigIdle /\ ConvIdle /\ LyrIdle /\ GatIdle /\ EqIdle
    /\ NetIdle /\ SlIdle
    /\ MainInitWith("graphsage/mini_batch.py", SageArgs)

NextSageMain ==
    \/ SageBranch
    \/ SagePlainRun
    \/ SageLoopTest
    \/ SageTryRun
    \/ SageRunExit

SpecSageMain == InitSageMain /\ [][NextSageMain]_vars

\* C24: in the search loop (an experiment id was given), an Exception raised
\* inside a run never ends the process; the run it was raised in carries the
\* 'exception' metadata and is marked failed; and the loop ends without an
\* error only when the experiment is finished, whatever the earlier runs did.
C24_ExceptionStaysInItsRun ==
    main_args.experiment_id # None =>
        /\ main_error # "Exception"
        /\ \A k \in DOMAIN main_runs :
              main_runs[k].raised = "Exception" =>
                  "exception" \in main_runs[k].metadata /\ main_runs[k].failed
        /\ (main_run.raised = "Exception" =>
                "exception" \in main_run.metadata /\ main_run.failed)
        /\ (main_pc = "exited" /\ main_error = "none") => main_finished

\* A run was created after a run that failed with an Exception.
C24_Witness ==
    /\ main_args.experiment_id # None
    /\ main_pc = "in_run"
    /\ Len(main_runs) = 1
    /\ main_runs[1].raised = "Exception"
    /\ main_runs[1].failed
    /\ main_run.open



(***************************************************************************)
(* experiments/gat/full_graph.py: the entry point and run().  Training and  *)
(* evaluation are the events "epochs" and "test" (Spec has their detail);   *)
(* a local name of run() is usable once it is in main_bound.                *)
(***************************************************************************)
Datasets == {"ogbn-arxiv", "ogbn-products", "ogbn-proteins"}

GatFullArgs ==
    [download_dataset : BOOLEAN, experiment_id : {None, 7},
     sigopt_api_token : {None, 1}, dataset : Datasets,
     edge_hidden_feats : {0, 16}, test_validation : BOOLEAN]

\* Variant: an empty token stands in for a missing one.
Token_Defaulted(args, env) ==
    IF args.sigopt_api_token # None THEN args.sigopt_api_token ELSE 0

\* lines 288-291: the token, from the argument or else from the environment
\* (2 stands for the value of SIGOPT_API_TOKEN); None when neither is given
Token(args, env) ==
    IF args.sigopt_api_token # None THEN args.sigopt_api_token
    ELSE IF env THEN 2
    ELSE None

\* lines 284-305 up to the first call of run() or the loop test
GatFullBranch ==
    /\ UNCHANGED <<drvVars, trVars, sigVars, convVars, lyrVars, gatVars, eqVars,
                   netVars, slVars>>
    /\ main_script = "gat/full_graph.py"
    /\ main_pc = "parsed"
    /\ LET downloaded == IF main_args.download_dataset
                         THEN Append(main_events, "download_dataset")
                         ELSE main_events
       IN  IF main_args.experiment_id = None
           THEN /\ main_events' = downloaded
                /\ main_pc' = "run"
                /\ UNCHANGED <<main_error, main_bound>>
           ELSE IF Token(main_args, main_env) = None
           THEN /\ main_events' = downloaded
                /\ main_error' = "ValueError"
                /\ main_pc' = "exited"
                /\ UNCHANGED main_bound
           ELSE /\ main_events' = Append(downloaded, "Connection")
                /\ main_bound' = main_bound \cup {"experiment"}
                /\ main_pc' = "loop_test"
                /\ UNCHANGED main_error
    /\ UNCHANGED <<main_script, main_args, main_env, main_finished, main_run,
                   main_runs>>

\* line 302: `while utils.is_experiment_finished(experiment)`; main_finished is
\* the helper's answer
GatFullLoopTest ==
    /\ UNCHANGED <<drvVars, trVars, sigVars, convVars, lyrVars, gatVars, eqVars,
                   netVars, slVars>>
    /\ main_script = "gat/full_graph.py"
    /\ main_pc = "loop_test"
    /\ main_pc' = IF main_finished /\ Len(main_runs) < MaxRuns THEN "run" ELSE "exited"
    /\ UNCHANGED <<main_script, main_args, main_env, main_error, main_bound,
                   main_finished, main_run, main_runs, main_events>>

\* run(): lines 77-121, the dataset and the hyperparameters; suggestion and
\* assignments are bound only when an experiment was passed
GatFullRunSetup ==
    /\ UNCHANGED <<drvVars, trVars, sigVars, convVars, lyrVars, gatVars, eqVars,
                   netVars, slVars>>
    /\ main_script = "gat/full_graph.py"
    /\ main_pc = "run"
    /\ main_events' = Append(main_events, "process_dataset")
    /\ main_bound' = (main_bound \cap {"experiment"})
                     \cup (IF "experiment" \in main_bound
                           THEN {"suggestion", "assignments"} ELSE {})
    /\ main_pc' = "run_edge_feats"
    /\ UNCHANGED <<main_script, main_args, main_env, main_error, main_finished,
                   main_run, main_runs>>

\* The outcome of evaluating the local name `name`
NameError(name, bound) == IF name \in bound THEN "none" ELSE "UnboundLocalError"

\* run(): lines 123-138, edge_hidden_feats; line 129 reads `assignments`
GatFullRunEdgeFeats ==
    /\ UNCHANGED <<drvVars, trVars, sigVars, convVars, lyrVars, gatVars, eqVars,
                   netVars, slVars>>
    /\ main_script = "gat/full_graph.py"
    /\ main_pc = "run_edge_feats"
    /\ LET err == IF main_args.dataset = "ogbn-proteins"
                     /\ main_args.edge_hidden_feats > 0
                  THEN NameError("assignments", main_bound) ELSE "none"
       IN  /\ main_error' = err
           /\ main_pc' = IF err = "none" THEN "run_train" ELSE "exited"
    /\ UNCHANGED <<main_script, main_args, main_env, main_bound, main_finished,
                   main_run, main_runs, main_events>>

\* run(): lines 140-205, the model and the epoch loop
GatFullRunTrain ==
    /\ UNCHANGED <<drvVars, trVars, sigVars, convVars, lyrVars, gatVars, eqVars,
                   netVars, slVars>>
    /\ main_script = "gat/full_graph.py"
    /\ main_pc = "run_train"
    /\ main_events' = Append(main_events, "epochs")
    /\ main_pc' = "run_test"
    /\ UNCHANGED <<main_script, main_args, main_env, main_error, main_bound,
                   main_finished, main_run, main_runs>>

\* run(): lines 207-236, the optional test evaluation and
\* utils.log_metrics_to_sigopt(experiment, suggestion, ...), whose arguments
\* are evaluated before the call
GatFullRunFinish ==
    /\ UNCHANGED <<drvVars, trVars, sigVars, convVars, lyrVars, gatVars, eqVars,
                   netVars, slVars>>
    /\ main_script = "gat/full_graph.py"
    /\ main_pc = "run_test"
    /\ LET tested == IF main_args.test_validation
                     THEN Append(main_events, "test") ELSE main_events
           err == NameError("suggestion", main_bound)
       IN  IF err # "none"
           THEN /\ main_events' = tested
                /\ main_error' = err
                /\ main_pc' = "exited"
                /\ UNCHANGED <<main_runs, main_finished>>
           ELSE /\ main_events' = Append(tested, "log_metrics_to_sigopt")
                /\ main_runs' = Append(main_runs, "returned")
                /\ main_finished' \in BOOLEAN
                /\ main_pc' = IF "experiment" \in main_bound
                              THEN "loop_test" ELSE "exited"
                /\ UNCHANGED main_error
    /\ UNCHANGED <<main_script, main_args, main_env, main_bound, main_run>>

InitGatFullMain ==
    /\ DrvIdle /\ TrIdle /\ SigIdle /\ ConvIdle /\ LyrIdle /\ GatIdle /\ EqIdle
    /\ NetIdle /\ SlIdle
    /\ MainInitWith("gat/full_graph.py", GatFullArgs)

NextGatFullMain ==
    \/ GatFullBranch
    \/ GatFullLoopTest
    \/ GatFullRunSetup
    \/ GatFullRunEdgeFeats
    \/ GatFullRunTrain
    \/ GatFullRunFinish

SpecGatFullMain == InitGatFullMain /\ [][NextGatFullMain]_vars

\* An experiment id without a token, neither as argument nor in the environment.
TokenMissing ==
    /\ main_args.experiment_id # None
    /\ main_args.sigopt_api_token = None
    /\ ~main_env

\* C25: with an experiment id and no token, the first step after the parsing
\* (and the optional download) ends the process with ValueError; no
\* connection is made, no dataset is processed and nothing is trained.
C25_ValueErrorBeforeAnyWork ==
    TokenMissing =>
        /\ main_pc \in {"parsed", "exited"}
        /\ main_pc = "exited" => main_error = "ValueError"
        /\ \A k \in DOMAIN main_events :
              main_events[k] \notin {"Connection", "process_dataset", "epochs", "test"}

\* The process has ended with ValueError for a command line with an experiment
\* id and no token, the environment holding none either.
C25_Witness ==
    /\ TokenMissing
    /\ main_pc = "exited"
    /\ main_error = "ValueError"
    /\ ~main_args.download_dataset
    /\ main_events = <<>>

\* C27: a run started without a search experiment ends without an error, after
\* its epoch loop and, when asked for, its test evaluation.
C27_RunWithoutExperimentReturns ==
    (main_script = "gat/full_graph.py" /\ main_args.experiment_id = None
        /\ main_pc = "exited") =>
        main_error = "none"



(***************************************************************************)
(* experiments/gat/mini_batch.py: the entry point.                          *)
(***************************************************************************)
\* --experiment-id has type int; 0 is given and falsy
GatMiniArgs ==
    [download_dataset : BOOLEAN, create_experiment : BOOLEAN,
     experiment_id : {None, 0, 7}]

\* `elif args.experiment_id:`
Truthy(experiment_id) == experiment_id # None /\ experiment_id # 0

\* lines 286-298: the download and the if / elif / else that binds
\* `experiment`; the else branch prints and evaluates the name `exit`, which it
\* does not call
GatMiniBranch ==
    /\ UNCHANGED <<drvVars, trVars, sigVars, convVars, lyrVars, gatVars, eqVars,
                   netVars, slVars>>
    /\ main_script = "gat/mini_batch.py"
    /\ main_pc = "parsed"
    /\ LET downloaded == IF main_args.download_dataset
                         THEN Append(main_events, "download_dataset")
                         ELSE main_events
       IN  IF main_args.create_experiment
           THEN /\ main_events' = Append(downloaded, "create_experiment")
                /\ main_bound' = main_bound \cup {"experiment"}
           ELSE IF Truthy(main_args.experiment_id)
           THEN /\ main_events' = Append(downloaded, "get_experiment")
                /\ main_bound' = main_bound \cup {"experiment"}
           ELSE /\ main_events' = Append(downloaded, "print")
                /\ main_bound' = main_bound
    /\ main_pc' = "loop_test"
    /\ UNCHANGED <<main_script, main_args, main_env, main_error, main_finished,
                   main_run, main_runs>>

\* lines 300-301: `while not experiment.is_finished()`, at module level, and
\* the entry of `with experiment.create_run() as run`
GatMiniLoopTest ==
    /\ UNCHANGED <<drvVars, trVars, sigVars, convVars, lyrVars, gatVars, eqVars,
                   netVars, slVars>>
    /\ main_script = "gat/mini_batch.py"
    /\ main_pc = "loop_test"
    /\ IF "experiment" \notin main_bound
       THEN /\ main_error' = "NameError"
            /\ main_pc' = "exited"
            /\ UNCHANGED <<main_run, main_events>>
       ELSE IF main_finished
       THEN /\ main_pc' = "exited"
            /\ UNCHANGED <<main_error, main_run, main_events>>
       ELSE /\ main_run' = [NoRun EXCEPT !.open = TRUE]
            /\ main_events' = Append(main_events, "create_run")
            /\ main_pc' = "in_run"
            /\ UNCHANGED main_error
    /\ UNCHANGED <<main_script, main_args, main_env, main_bound, main_finished,
                   main_runs>>

\* lines 302-303: log_run(args), with no handler around it, the exit of the
\* with statement and the experiment fetched again
GatMiniLogRun ==
    /\ UNCHANGED <<drvVars, trVars, sigVars, convVars, lyrVars, gatVars, eqVars,
                   netVars, slVars>>
    /\ main_script = "gat/mini_batch.py"
    /\ main_pc = "in_run"
    /\ \E outcome \in RunOutcomes :
          /\ main_runs' = Append(main_runs,
                                 [main_run EXCEPT !.open = FALSE,
                                                  !.raised = IF outcome = "returned"
                                                             THEN "none" ELSE outcome])
          /\ IF outcome = "returned"
             THEN /\ main_events' = main_events \o <<"log_run", "get_experiment">>
                  /\ main_pc' = "loop_test"
                  /\ UNCHANGED main_error
             ELSE /\ main_events' = Append(main_events, "log_run")
                  /\ main_error' = outcome
                  /\ main_pc' = "exited"
    /\ main_run' = NoRun
    /\ main_finished' \in (IF Len(main_runs') >= MaxRuns THEN {TRUE} ELSE BOOLEAN)
    /\ UNCHANGED <<main_script, main_args, main_env, main_bound>>

InitGatMiniMain ==
    /\ DrvIdle /\ TrIdle /\ SigIdle /\ ConvIdle /\ LyrIdle /\ GatIdle /\ EqIdle
    /\ NetIdle /\ SlIdle
    /\ MainInitWith("gat/mini_batch.py", GatMiniArgs)

NextGatMiniMain ==
    \/ GatMiniBranch
    \/ GatMiniLoopTest
    \/ GatMiniLogRun

SpecGatMiniMain == InitGatMiniMain /\ [][NextGatMiniMain]_vars

\* C26: with neither --create-experiment nor --experiment-id, the process
\* prints the message and exits there: it ends without an error, nothing
\* follows the message, and no run is created.
C26_ExitsAtTheMessage ==
    (main_script = "gat/mini_batch.py" /\ ~main_args.create_experiment
        /\ main_args.experiment_id = None) =>
        /\ main_error = "none"
        /\ \A k \in DOMAIN main_events : main_events[k] # "create_run"
        /\ main_pc = "exited" =>
              main_events # <<>> /\ main_events[Len(main_events)] = "print"



(***************************************************************************)
(* Logits and labels of a mini-batch (specification SpecGAT).               *)
(***************************************************************************)
\* `labels = blocks[-1].dstdata['label']`: one row per destination node of
\* the last block of the list
LabelRows == gat_blocks[Len(gat_blocks)].num_dst_nodes

\* C28 as stated: the logits have as many rows as the labels exactly when the
\* list has num_layers blocks; a shorter list never yields logits, a longer
\* one yields logits whose rows do not match the labels.
C28_AlignedOnlyWithOneBlockPerLayer ==
    /\ Len(gat_blocks) = gat_num_layers =>
          /\ gat_pc \notin {"IndexError", "DGLError"}
          /\ gat_pc = "returned" => gat_x.rows = LabelRows
    /\ Len(gat_blocks) < gat_num_layers => gat_pc # "returned"
    /\ (Len(gat_blocks) > gat_num_layers /\ gat_pc = "returned") =>
          gat_x.rows # LabelRows

\* C28 amended: with one block per layer the logits have one row per
\* destination node of the last block, as the labels do; a shorter list never
\* yields logits; a longer list yields logits with one row per destination
\* node of block num_layers - 1, the later blocks being ignored, which matches
\* the labels only if the ignored blocks have that many destination nodes.
C28_AlignedWithOneBlockPerLayer ==
    /\ Len(gat_blocks) = gat_num_layers =>
          /\ gat_pc \notin {"IndexError", "DGLError"}
          /\ gat_pc = "returned" => gat_x.rows = LabelRows
    /\ Len(gat_blocks) < gat_num_layers => gat_pc # "returned"
    /\ (Len(gat_blocks) > gat_num_layers /\ gat_pc = "returned") =>
          /\ gat_x.rows = gat_blocks[gat_num_layers].num_dst_nodes
          /\ Len(gat_log) = gat_num_layers

\* A one-layer network has returned logits for a list of two blocks, the
\* second of which keeps every node of the first's destination: the rows of
\* the logits match the labels although a block was ignored.
C28_Witness ==
    /\ gat_pc = "returned"
    /\ gat_num_layers = 1
    /\ Len(gat_blocks) = 2
    /\ gat_blocks[1].num_src_nodes = 3
    /\ gat_blocks[1].num_dst_nodes = 2
    /\ gat_blocks[2].num_dst_nodes = 2
    /\ gat_x.rows = LabelRows



(***************************************************************************)
(* do_sigopt_run() with its per-epoch lists and the 'best epoch' metrics   *)
(* it logs.  The early-stopping counter, which the loop never acts on, is   *)
(* left to SpecSigOpt.                                                      *)
(***************************************************************************)
MaxSlEpochs == 3

SlAccuracies == {1, 2, 3}
SlValues == {1, 2}

\* A Python list indexed with i (0-based, i >= 0)
ListAt(list, i) == list[i + 1]

\* Nothing was logged yet.
NoMetrics == [train_accuracy |-> None, train_loss |-> None, test_loss |-> None,
              test_accuracy |-> None, epoch |-> None]

SlInit ==
    /\ sl_number_of_epochs \in 1..MaxSlEpochs
    /\ sl_pc = "train"
    /\ sl_epoch = 1
    /\ sl_now = <<>>
    /\ sl_best_accuracy = NoBest
    /\ epoch_train_accuracies = <<>>
    /\ epoch_test_accuracies = <<>>
    /\ epoch_train_losses = <<>>
    /\ epoch_test_losses = <<>>
    /\ sl_metrics = NoMetrics

\* lines 95-124: train(), validate() on the test split, the appends
SlTrainValidate ==
    /\ UNCHANGED <<drvVars, trVars, sigVars, convVars, lyrVars, gatVars, eqVars,
                   netVars, mainVars>>
    /\ sl_pc = "train"
    /\ \E ta \in SlValues, tl \in SlValues, a \in SlAccuracies, l \in SlValues :
          /\ sl_now' = [train_accuracy |-> ta, train_loss |-> tl,
                        test_accuracy |-> a, test_loss |-> l]
          /\ epoch_train_accuracies' = Append(epoch_train_accuracies, ta)
          /\ epoch_test_accuracies' = Append(epoch_test_accuracies, a)
          /\ epoch_train_losses' = Append(epoch_train_losses, tl)
          /\ epoch_test_losses' = Append(epoch_test_losses, l)
    /\ sl_pc' = "early_stopping_check"
    /\ UNCHANGED <<sl_number_of_epochs, sl_epoch, sl_best_accuracy, sl_metrics>>

\* lines 127-128: the best record
SlEarlyStoppingCheck ==
    /\ UNCHANGED <<drvVars, trVars, sigVars, convVars, lyrVars, gatVars, eqVars,
                   netVars, mainVars>>
    /\ sl_pc = "early_stopping_check"
    /\ sl_best_accuracy' = SigBestAfter(sl_best_accuracy, sl_now.test_accuracy, sl_epoch)
    /\ sl_pc' = "log"
    /\ UNCHANGED <<sl_number_of_epochs, sl_epoch, sl_now, epoch_train_accuracies,
                   epoch_test_accuracies, epoch_train_losses, epoch_test_losses,
                   sl_metrics>>

\* lines 142-146 and 161-165: the 'best epoch' metrics
BestEpochMetrics(best, train_accuracies, train_losses, test_losses) ==
    [train_accuracy |-> ListAt(train_accuracies, best.epoch - 1),
     train_loss |-> ListAt(train_losses, best.epoch - 1),
     test_loss |-> ListAt(test_losses, best.epoch - 1),
     test_accuracy |-> best.value,
     epoch |-> best.epoch]

\* lines 136-152: the metrics of the epoch, then the next value of
\* range(1, 1 + number_of_epochs), if any
SlLogMetrics ==
    /\ UNCHANGED <<drvVars, trVars, sigVars, convVars, lyrVars, gatVars, eqVars,
                   netVars, mainVars>>
    /\ sl_pc = "log"
    /\ sl_metrics' = BestEpochMetrics(sl_best_accuracy, epoch_train_accuracies,
                                      epoch_train_losses, epoch_test_losses)
    /\ IF sl_epoch < sl_number_of_epochs
       THEN sl_epoch' = sl_epoch + 1 /\ sl_pc' = "train"
       ELSE sl_epoch' = sl_epoch /\ sl_pc' = "final"
    /\ UNCHANGED <<sl_number_of_epochs, sl_now, sl_best_accuracy,
                   epoch_train_accuracies, epoch_test_accuracies,
                   epoch_train_losses, epoch_test_losses>>

\* lines 155-165: the final metrics
SlFinalMetrics ==
    /\ UNCHANGED <<drvVars, trVars, sigVars, convVars, lyrVars, gatVars, eqVars,
                   netVars, mainVars>>
    /\ sl_pc = "final"
    /\ sl_metrics' = BestEpochMetrics(sl_best_accuracy, epoch_train_accuracies,
                                      epoch_train_losses, epoch_test_losses)
    /\ sl_pc' = "done"
    /\ UNCHANGED <<sl_number_of_epochs, sl_epoch, sl_now, sl_best_accuracy,
                   epoch_train_accuracies, epoch_test_accuracies,
                   epoch_train_losses, epoch_test_losses>>

InitSigLists ==
    /\ DrvIdle /\ TrIdle /\ SigIdle /\ ConvIdle /\ LyrIdle /\ GatIdle /\ EqIdle
    /\ NetIdle /\ MainIdle
    /\ SlInit

NextSigLists ==
    \/ SlTrainValidate
    \/ SlEarlyStoppingCheck
    \/ SlLogMetrics
    \/ SlFinalMetrics

SpecSigLists == InitSigLists /\ [][NextSigLists]_vars

\* The epochs whose bookkeeping is done: all the recorded ones, but the last
\* while its bookkeeping is pending.
EpochsAccounted ==
    IF sl_pc = "early_stopping_check" THEN 1..(Len(epoch_test_accuracies) - 1)
    ELSE 1..Len(epoch_test_accuracies)

\* C29: once an epoch's bookkeeping is done, best_accuracy holds the largest
\* test accuracy recorded so far and the earliest epoch (counted from 1) that
\* attained it; and the 'best epoch' train accuracy, train loss and test loss
\* that were logged are the values recorded at the epoch logged as best, which
\* was the best epoch when they were logged.
C29_BestEpochIsEarliestMaximum ==
    /\ EpochsAccounted # {} =>
          /\ sl_best_accuracy.epoch \in EpochsAccounted
          /\ sl_best_accuracy.value = epoch_test_accuracies[sl_best_accuracy.epoch]
          /\ \A k \in EpochsAccounted :
                /\ epoch_test_accuracies[k] <= sl_best_accuracy.value
                /\ k < sl_best_accuracy.epoch =>
                      epoch_test_accuracies[k] < sl_best_accuracy.value
    /\ sl_metrics # NoMetrics =>
          /\ sl_metrics.train_accuracy = epoch_train_accuracies[sl_metrics.epoch]
          /\ sl_metrics.train_loss = epoch_train_losses[sl_metrics.epoch]
          /\ sl_metrics.test_loss = epoch_test_losses[sl_metrics.epoch]
          /\ sl_metrics.test_accuracy = epoch_test_accuracies[sl_metrics.epoch]
          /\ sl_pc \in {"train", "final", "done"} =>
                sl_metrics.epoch = sl_best_accuracy.epoch

\* Three epochs with test accuracies 1, 2, 2: the second epoch is the best one,
\* and the logged train accuracy and losses are its values, which differ from
\* those of the third.
C29_Witness ==
    /\ sl_pc = "done"
    /\ epoch_test_accuracies = <<1, 2, 2>>
    /\ sl_best_accuracy = [value |-> 2, epoch |-> 2]
    /\ epoch_train_accuracies = <<2, 1, 2>>
    /\ epoch_train_losses = <<2, 1, 2>>
    /\ epoch_test_losses = <<2, 1, 2>>
    /\ sl_metrics.train_accuracy = 1
    /\ sl_metrics.train_loss = 1
    /\ sl_metrics.test_loss = 1



(***************************************************************************)
(* experiments/run_experiment.py: the command line it builds, and the       *)
(* argument parser of the script that command line starts.                  *)
(***************************************************************************)
LauncherArgs ==
    [model : {"gat", "graphsage", "rgcn"},
     training_method : {"mini-batch", "full-graph"},
     dataset : {"ogbn-arxiv", "ogbn-mag", "ogbn-products", "ogbn-proteins"},
     sigopt_api_token : {None, 1},
     experiment_id : {None, 7},
     dataset_root : {None, 1},
     optimization_target : {"None", "accuracy", "speed"}]

\* line 6: path
TargetPath(args) ==
    IF args.training_method = "mini-batch" THEN <<args.model, "mini_batch.py">>
    ELSE <<args.model, "full_graph.py">>

\* lines 8-22: the options put on the command line
ForwardedOptions(args) ==
    {"--dataset"}
    \cup (IF args.sigopt_api_token # None THEN {"--sigopt-api-token"} ELSE {})
    \cup (IF args.experiment_id # None THEN {"--experiment-id"} ELSE {})
    \cup (IF args.dataset_root # None THEN {"--dataset-root"} ELSE {})
    \cup (IF args.optimization_target = "speed" THEN {"--test-validation"}
          ELSE IF args.optimization_target = "accuracy" THEN {"--no-test-validation"}
          ELSE {})

\* The target scripts of this repository.
TargetScripts ==
    {<<"gat", "full_graph.py">>, <<"gat", "mini_batch.py">>,
     <<"graphsage", "mini_batch.py">>}

\* Among the options the launcher can forward, those the target's parser
\* defines: only gat/full_graph.py defines --sigopt-api-token.
DefinedOptions(path) ==
    {"--dataset", "--dataset-root", "--experiment-id", "--test-validation",
     "--no-test-validation"}
    \cup (IF path = <<"gat", "full_graph.py">> THEN {"--sigopt-api-token"} ELSE {})

\* run_experiment(): lines 5-26
LauncherRun ==
    /\ UNCHANGED <<drvVars, trVars, sigVars, convVars, lyrVars, gatVars, eqVars,
                   netVars, slVars>>
    /\ main_script = "run_experiment.py"
    /\ main_pc = "parsed"
    /\ main_run' = [path |-> TargetPath(main_args),
                    options |-> ForwardedOptions(main_args),
                    dataset |-> main_args.dataset]
    /\ main_events' = Append(main_events, "os.system")
    /\ main_pc' = "launched"
    /\ UNCHANGED <<main_script, main_args, main_env, main_error, main_bound,
                   main_finished, main_runs>>

\* argparser.parse_args() of the launched script: an option it does not
\* define, or a dataset outside its choices, ends it with a usage error; a
\* script that is not in the repository cannot be started
TargetParse ==
    /\ UNCHANGED <<drvVars, trVars, sigVars, convVars, lyrVars, gatVars, eqVars,
                   netVars, slVars>>
    /\ main_script = "run_experiment.py"
    /\ main_pc = "launched"
    /\ main_error' =
          IF main_run.path \notin TargetScripts THEN "no such file"
          ELSE IF ~(main_run.options \subseteq DefinedOptions(main_run.path))
          THEN "unrecognized arguments"
          ELSE IF main_run.dataset \notin Datasets THEN "invalid choice"
          ELSE "none"
    /\ main_pc' = "exited"
    /\ UNCHANGED <<main_script, main_args, main_env, main_bound, main_finished,
                   main_run, main_runs, main_events>>

InitLauncher ==
    /\ DrvIdle /\ TrIdle /\ SigIdle /\ ConvIdle /\ LyrIdle /\ GatIdle /\ EqIdle
    /\ NetIdle /\ SlIdle
    /\ MainInitWith("run_experiment.py", LauncherArgs)

NextLauncher ==
    \/ LauncherRun
    \/ TargetParse

SpecLauncher == InitLauncher /\ [][NextLauncher]_vars

\* C30: whenever the launcher starts one of the three driver scripts, every
\* option on the command line is defined by that script's parser and the
\* dataset is among its choices, so that the script's parsing succeeds.
C30_ForwardedOptionsAreDefined ==
    (main_script = "run_experiment.py" /\ main_pc \in {"launched", "exited"}
        /\ main_run.path \in TargetScripts) =>
        /\ main_run.options \subseteq DefinedOptions(main_run.path)
        /\ main_run.dataset \in Datasets
        /\ main_pc = "exited" => main_error = "none"

====
